---- MODULE Spec2Model ----
(***************************************************************************)
(* A model of the circuit breaker of this repository (CircuitBreaker.js,   *)
(* kept in src/unnamed/part_007).  The breaker object is shared by the     *)
(* callers of one event loop: every synchronous stretch of code is one     *)
(* atomic action, and an execute() call is split where it awaits the       *)
(* wrapped operation, so that several calls can be in flight at once.      *)
(* monitoringStartTime, which only feeds the uptime figure of getMetrics,  *)
(* is not part of the state.                                               *)
(*                                                                         *)
(* The second half models the cache strategies of                          *)
(* src/cache/AdvancedCacheStrategies.js over the in-memory strategy of     *)
(* src/cache/CacheManager.js: cacheAsideWithLock with its lock registry    *)
(* (SpecLock), and staleWhileRevalidate and writeThrough with the TTL      *)
(* timers of the store (SpecSwr).                                          *)
(* writeBehind with its delayed persist (SpecBehind) and                   *)
(* cacheWithCircuitBreaker with the circuit object it keeps in the cache   *)
(* (SpecCb) follow; then CacheManager's strategy registry, wrappers and    *)
(* healthCheck (SpecMgr), MemoryCacheStrategy with its timeouts (SpecMem), *)
(* and the compress / decompress pair of src/cache/CacheCompression.js     *)
(* (SpecComp).                                                             *)
(* The last part models CachePartitioning of src/cache/RedisCache.js       *)
(* (SpecPart), the withFallback middleware of                              *)
(* src/middleware/circuitBreakerMiddleware.js over the breaker (SpecMw),   *)
(* the breaker beside a breaker that is rebuilt on reset (SpecReset), and  *)
(* the RateLimiter middleware of src/unnamed/part_003 over its             *)
(* MemoryStore (SpecLimiter).                                              *)
(***************************************************************************)
EXTENDS Integers, Sequences, FiniteSets, Bags, TLC

\* ---------------------------------------------------------------- bounds
MaxInFlight == 2
MaxThreshold == 2
MaxCalls == 3
MaxTime == 3
MaxBlocked == 2
recoveryTimeout == 2
NumCallers == 2
MaxClock == 6
MaxTasks == 2
MaxFailures == 3
MaxSets == 2
MaxClears == 1
MaxMemClock == 3
MaxStrLen == 2
MaxArrLen == 2
MaxInstances == 3
MaxRequests == 3
MaxLimit == 2
MaxLimiterClock == 3

\* JavaScript null, for the nullable timestamps
NULL == -1

\* Number(null) is 0: the coercion applied by >= to a null timestamp
ToNumber(x) == IF x = NULL THEN 0 ELSE x

HookNames == {"onStateChange", "onFailure", "onSuccess"}

\* The fallback argument of execute(): absent (null), a function that
\* returns or a truthy static value ("ok": both yield the fallback's
\* result), a function that throws, a falsy static value (0, "", false)
FallbackKinds == {"none", "ok", "fn_throws", "falsy"}

\* JavaScript truthiness of the fallback argument, as tested by if (fallback)
Truthy(f) == f \notin {"none", "falsy"}

\* An execute() call suspended at await operation(): its fallback argument,
\* and whether it is the call that moved the breaker from OPEN to HALF_OPEN
Call(f, t) == [fallback |-> f, trial |-> t]

Calls == {Call(f, t) : f \in FallbackKinds, t \in BOOLEAN}

VARIABLES
    state, failureCount, lastFailureTime, nextAttemptTime,
    requestCount, successCount,
    failureThreshold, hookThrows,
    now, inflight, ev,
    calls, openedAt, blocked,
    hist,
    store, lockManager, callers, burst, cev, tasks,
    writes,
    circuit, slots, cbThreshold, streak, tripTime,
    strategies, currentStrategy, backend,
    cache, timers, timeouts, nextId, gen, lastSet,
    comp,
    part, shadow, limiter

vars == <<state, failureCount, lastFailureTime, nextAttemptTime,
          requestCount, successCount,
          failureThreshold, hookThrows,
          now, inflight, ev,
          calls, openedAt, blocked,
          hist,
          store, lockManager, callers, burst, cev, tasks,
          writes,
          circuit, slots, cbThreshold, streak, tripTime,
          strategies, currentStrategy, backend,
          cache, timers, timeouts, nextId, gen, lastSet,
          comp, part, shadow, limiter>>

\* The variables of the cache coordinator (AdvancedCacheStrategies.js) and
\* of the cache it writes to
cacheVars == <<store, lockManager, callers, burst, cev, tasks>>

\* The variables of the remaining access patterns of the coordinator, of
\* CacheManager and its stores, and of the compression
\* The variables of the partitioner (CachePartitioning, RedisCache.js)
partVars == <<part>>

managerVars ==
    <<writes, circuit, slots, cbThreshold, streak, tripTime,
      strategies, currentStrategy, backend,
      cache, timers, timeouts, nextId, gen, lastSet, comp, partVars,
      shadow, limiter>>

\* The variables of MemoryCacheStrategy with its timers
memoryVars == <<cache, timers, timeouts, nextId, gen, lastSet>>

\* the same, the pending write-behinds apart
restVars ==
    <<circuit, slots, cbThreshold, streak, tripTime,
      strategies, currentStrategy, backend, memoryVars, comp, partVars,
      shadow, limiter>>

\* the same, the per-key circuit of cacheWithCircuitBreaker apart
nonCircuitVars ==
    <<writes, strategies, currentStrategy, backend, memoryVars, comp, partVars,
      shadow, limiter>>

\* the same, the registry and the stores of CacheManager apart
nonManagerVars ==
    <<writes, circuit, slots, cbThreshold, streak, tripTime, memoryVars,
      comp, partVars,
      shadow, limiter>>

\* the same, MemoryCacheStrategy apart
nonMemoryVars ==
    <<writes, circuit, slots, cbThreshold, streak, tripTime,
      strategies, currentStrategy, backend, comp, partVars,
      shadow, limiter>>

\* the same, the compression apart
nonCompVars ==
    <<writes, circuit, slots, cbThreshold, streak, tripTime,
      strategies, currentStrategy, backend, memoryVars, partVars,
      shadow, limiter>>

\* No payload is being compressed
NoComp == [pc |-> "none"]

\* No partitioner has been constructed
NoPart == [pc |-> "none"]

\* History: reset() was not called yet
NoShadow == [pc |-> "none"]

\* No rate limiter has been constructed
NoLimiter == [pc |-> "none"]

\* The keys used on the in-process store
MemKeys == {"a", "b"}

\* History: no set of the key since it was last deleted or cleared
NoSet ==
    [id |-> 0, at |-> NULL, ttl |-> 0, value |-> NULL, replaced |-> FALSE]

\* The own properties of this.strategies
StrategySlots == {"memory", "nodeCache", "redis"}

\* The keys of the stores that the calls on CacheManager use: a key of the
\* application and the key of the health probe
MgrKeys == {"k", "probe"}

\* The object cached under circuit:key, none being cached at first
NoCircuit ==
    [held |-> FALSE, state |-> "CLOSED", failures |-> 0, lastFailure |-> 0]

\* The keys cacheWithCircuitBreaker reads and writes besides circuit:key
SlotKeys == {"key", "stale:key"}

config == <<failureThreshold, hookThrows>>

\* The variables of the circuit breaker, the clock apart
breakerVars == <<state, failureCount, lastFailureTime, nextAttemptTime,
                 requestCount, successCount, config, inflight, ev,
                 calls, openedAt, blocked>>

\* The mutable fields of the breaker object, as one record
This ==
    [state |-> state, failureCount |-> failureCount,
     lastFailureTime |-> lastFailureTime, nextAttemptTime |-> nextAttemptTime,
     requestCount |-> requestCount, successCount |-> successCount]

SetThis(b) ==
    /\ state' = b.state
    /\ failureCount' = b.failureCount
    /\ lastFailureTime' = b.lastFailureTime
    /\ nextAttemptTime' = b.nextAttemptTime
    /\ requestCount' = b.requestCount
    /\ successCount' = b.successCount

\* What the latest step did: which handler ran, the fallback argument of
\* the execute() call the step belongs to, what that call settled with,
\* and the notification hooks the step invoked
Event(kind, f, outcome, hooks) ==
    [kind |-> kind, fallback |-> f, outcome |-> outcome, hooks |-> hooks]

\* ------------------------------------------------------- pure helpers

shouldOpenCircuit(b) == b.failureCount >= failureThreshold

\* Variant: the gate opens only strictly after nextAttemptTime
canAttemptReset_strict(b, t) == t > ToNumber(b.nextAttemptTime)

canAttemptReset(b, t) == t >= ToNumber(b.nextAttemptTime)

\* executeFallback: a function fallback is called, a static one returned
executeFallback(f) ==
    IF f = "fn_throws" THEN "fallback_failed" ELSE "fallback_result"

handleOpenCircuit(f) ==
    IF Truthy(f) THEN executeFallback(f) ELSE "open_error"

\* Variant: a success in HALF_OPEN leaves the state as it is
onCallSuccess_staysHalfOpen(b) ==
    [b |-> [b EXCEPT !.successCount = @ + 1, !.failureCount = 0],
     hooks |-> <<"onSuccess">>, threw |-> "onSuccess" \in hookThrows]

\* onCallSuccess on fields b; threw tells that a hook threw, in which case
\* the statements after that hook did not run
onCallSuccess(b) ==
    LET b1 == [b EXCEPT !.successCount = @ + 1, !.failureCount = 0]
    IN  IF b1.state = "HALF_OPEN"
        THEN LET b2 == [b1 EXCEPT !.state = "CLOSED"]
             IN  IF "onStateChange" \in hookThrows
                 THEN [b |-> b2, hooks |-> <<"CLOSED">>, threw |-> TRUE]
                 ELSE [b |-> b2, hooks |-> <<"CLOSED", "onSuccess">>,
                       threw |-> "onSuccess" \in hookThrows]
        ELSE [b |-> b1, hooks |-> <<"onSuccess">>,
              threw |-> "onSuccess" \in hookThrows]

\* onCallFailure on fields b at time t
onCallFailure(b, t) ==
    LET b1 == [b EXCEPT !.failureCount = @ + 1, !.lastFailureTime = t]
    IN  IF shouldOpenCircuit(b1)
        THEN LET b2 == [b1 EXCEPT !.state = "OPEN",
                                  !.nextAttemptTime = t + recoveryTimeout]
             IN  IF "onStateChange" \in hookThrows
                 THEN [b |-> b2, hooks |-> <<"OPEN">>, threw |-> TRUE]
                 ELSE [b |-> b2, hooks |-> <<"OPEN", "onFailure">>,
                       threw |-> "onFailure" \in hookThrows]
        ELSE [b |-> b1, hooks |-> <<"onFailure">>,
              threw |-> "onFailure" \in hookThrows]

\* The catch block of execute(): record the failure, then fall back or
\* rethrow; err is the outcome that stands for the caught error
CatchBlock(b, t, f, err) ==
    LET r == onCallFailure(b, t)
    IN  [b |-> r.b, hooks |-> r.hooks,
         outcome |-> IF r.threw THEN "hook_error"
                     ELSE IF Truthy(f) /\ r.b.state = "OPEN"
                          THEN executeFallback(f)
                          ELSE err]

Fired(hooks, h) == \E i \in 1..Len(hooks) : hooks[i] = h

\* History: while the state is OPEN, the time of the assignment
\* this.state = "OPEN" that was made last
OpenedAtAfter(b, hooks, t) ==
    IF b.state # "OPEN" THEN NULL
    ELSE IF Fired(hooks, "OPEN") THEN t ELSE openedAt

\* History: the execute calls short-circuited since the state was last
\* assigned "OPEN", until the breaker closes
BlockedAfter(b, hooks) ==
    IF b.state = "CLOSED" \/ Fired(hooks, "OPEN") THEN 0 ELSE blocked

\* --------------------------------------------------------------- Init

InitBreaker ==
    /\ state = "CLOSED"
    /\ failureCount = 0
    /\ lastFailureTime = NULL
    /\ nextAttemptTime = NULL
    /\ requestCount = 0
    /\ successCount = 0
    /\ failureThreshold \in 1..MaxThreshold
    /\ now = 0
    /\ inflight = EmptyBag
    /\ ev = Event("init", "none", "none", <<>>)
    /\ calls = 0
    /\ openedAt = NULL
    /\ blocked = 0

\* An entry of the cache: the value stored under a key and the instant at
\* which its TTL timer deletes it (NULL: no timer)
Entry(v, expires) == [value |-> v, expires |-> expires]

\* A key the cache does not hold
Absent == Entry(NULL, NULL)

\* The keys in use: one data key and the key of its metadata
CacheKeys == {"key", "meta:key"}

\* A caller of cacheAsideWithLock that has not called yet
IdleCaller == [pc |-> "idle", start |-> NULL, wake |-> NULL, ret |-> NULL]

\* Nothing has been recorded yet
InitHistory == hist = <<>>

\* An empty cache, an empty lock registry and no cache call made
InitCache ==
    /\ store = [k \in CacheKeys |-> Absent]
    /\ lockManager = FALSE
    /\ callers = [c \in 1..NumCallers |-> IdleCaller]
    /\ burst = TRUE
    /\ cev = [kind |-> "init", value |-> NULL]
    /\ tasks = EmptyBag

\* No write-behind is pending; nothing is cached for the key of
\* cacheWithCircuitBreaker, no call of it was made; CacheManager as
\* constructed: the memory and nodeCache stores registered and empty, the
\* redis slot null, memory selected; a new MemoryCacheStrategy, with an
\* empty map and no timer
InitManager ==
    /\ writes = EmptyBag
    /\ circuit = NoCircuit
    /\ slots = [k \in SlotKeys |-> [value |-> NULL, expires |-> NULL]]
    /\ streak = 0
    /\ tripTime = NULL
    /\ strategies = [n \in StrategySlots |-> n # "redis"]
    /\ currentStrategy = "memory"
    /\ backend = [n \in StrategySlots |-> [k \in MgrKeys |-> "none"]]
    /\ cache = [k \in MemKeys |-> NULL]
    /\ timers = [k \in MemKeys |-> 0]
    /\ timeouts = {}
    /\ nextId = 1
    /\ gen = 0
    /\ lastSet = [k \in MemKeys |-> NoSet]

\* Hooks that return normally: the defaults () => {} and the logging hooks
\* of the repository
Init ==
    /\ InitBreaker /\ hookThrows = {} /\ InitHistory /\ InitCache
    /\ InitManager /\ cbThreshold = 1 /\ comp = NoComp /\ part = NoPart
    /\ shadow = NoShadow /\ limiter = NoLimiter

\* Hooks supplied by the embedding application may throw; one throwing
\* hook at a time
InitHooks ==
    /\ InitBreaker
    /\ hookThrows \in {{}} \cup {{h} : h \in HookNames}
    /\ InitHistory
    /\ InitCache
    /\ InitManager
    /\ cbThreshold = 1
    /\ comp = NoComp /\ part = NoPart
    /\ shadow = NoShadow /\ limiter = NoLimiter

\* ------------------------------------------------------------ actions

\* Variant: a recovery timer that moves the breaker to HALF_OPEN when
\* nextAttemptTime is reached
Tick_recoveryTimer ==
    /\ now < MaxTime
    /\ now' = now + 1
    /\ state' = IF state = "OPEN" /\ now + 1 >= ToNumber(nextAttemptTime)
                THEN "HALF_OPEN" ELSE state
    /\ ev' = Event("tick", "none", "none", <<>>)
    /\ UNCHANGED <<failureCount, lastFailureTime, nextAttemptTime,
                   requestCount, successCount, config, inflight, calls,
                   openedAt, blocked>>

\* Date.now() advances
Tick ==
    /\ now < MaxTime
    /\ now' = now + 1
    /\ ev' = Event("tick", "none", "none", <<>>)
    /\ UNCHANGED <<state, failureCount, lastFailureTime, nextAttemptTime,
                   requestCount, successCount, config, inflight, calls,
                   openedAt, blocked>>

\* execute(operation, fallback) up to its first suspension: the OPEN gate,
\* then requestCount++ and the invocation of the operation
ExecuteStart(f) ==
    /\ calls < MaxCalls
    /\ calls' = calls + 1
    /\ IF state = "OPEN" /\ ~canAttemptReset(This, now)
       THEN \* return this.handleOpenCircuit(fallback)
            /\ ev' = Event("short", f, handleOpenCircuit(f), <<>>)
            /\ blocked' = IF blocked < MaxBlocked THEN blocked + 1 ELSE blocked
            /\ UNCHANGED <<state, failureCount, lastFailureTime,
                           nextAttemptTime, requestCount, successCount,
                           inflight, openedAt>>
       ELSE IF state = "OPEN" /\ "onStateChange" \in hookThrows
       THEN \* onStateChange("HALF_OPEN") throws out of execute
            /\ state' = "HALF_OPEN"
            /\ ev' = Event("trialAbort", f, "hook_error", <<"HALF_OPEN">>)
            /\ openedAt' = NULL
            /\ UNCHANGED <<failureCount, lastFailureTime, nextAttemptTime,
                           requestCount, successCount, inflight, blocked>>
       ELSE /\ BagCardinality(inflight) < MaxInFlight
            /\ state' = IF state = "OPEN" THEN "HALF_OPEN" ELSE state
            /\ requestCount' = requestCount + 1
            /\ inflight' = inflight (+) SetToBag({Call(f, state = "OPEN")})
            /\ ev' = Event("start", f, "none",
                           IF state = "OPEN" THEN <<"HALF_OPEN">> ELSE <<>>)
            /\ openedAt' = NULL
            /\ UNCHANGED <<failureCount, lastFailureTime, nextAttemptTime,
                           successCount, blocked>>
    /\ UNCHANGED <<config, now>>

\* The promise of execute() settles: the call is no longer in flight
Settle(call) ==
    inflight' = inflight (-) SetToBag({call})

\* The awaited operation resolves: onCallSuccess(), return result; a hook
\* that throws inside the try block lands in the catch block
OpSucceed(call) ==
    /\ BagIn(call, inflight)
    /\ LET f == call.fallback
           r == onCallSuccess(This)
           k == CatchBlock(r.b, now, f, "hook_error")
       IN  IF r.threw
           THEN /\ SetThis(k.b)
                /\ ev' = Event("success", f, k.outcome, r.hooks \o k.hooks)
                /\ openedAt' = OpenedAtAfter(k.b, k.hooks, now)
                /\ blocked' = BlockedAfter(k.b, k.hooks)
           ELSE /\ SetThis(r.b)
                /\ ev' = Event("success", f, "result", r.hooks)
                /\ openedAt' = OpenedAtAfter(r.b, r.hooks, now)
                /\ blocked' = BlockedAfter(r.b, r.hooks)
    /\ Settle(call)
    /\ UNCHANGED <<config, now, calls>>

\* The awaited operation rejects: the catch block of execute()
OpFail(call) ==
    /\ BagIn(call, inflight)
    /\ LET f == call.fallback
           k == CatchBlock(This, now, f, "op_error")
       IN  /\ SetThis(k.b)
           /\ ev' = Event("failure", f, k.outcome, k.hooks)
           /\ openedAt' = OpenedAtAfter(k.b, k.hooks, now)
           /\ blocked' = BlockedAfter(k.b, k.hooks)
    /\ Settle(call)
    /\ UNCHANGED <<config, now, calls>>

reset ==
    /\ state' = "CLOSED"
    /\ failureCount' = 0
    /\ successCount' = 0
    /\ requestCount' = 0
    /\ lastFailureTime' = NULL
    /\ nextAttemptTime' = NULL
    /\ ev' = Event("reset", "none", "none", <<"CLOSED">>)
    /\ openedAt' = NULL
    /\ blocked' = 0
    /\ UNCHANGED <<config, now, inflight, calls>>

\* Variant: forceOpen() that does not schedule the next attempt
forceOpen_noSchedule ==
    /\ state' = "OPEN"
    /\ ev' = Event("forceOpen", "none", "none", <<"OPEN">>)
    /\ openedAt' = now
    /\ blocked' = 0
    /\ UNCHANGED <<failureCount, lastFailureTime, nextAttemptTime,
                   requestCount, successCount, config, now, inflight,
                   calls>>

forceOpen ==
    /\ state' = "OPEN"
    /\ nextAttemptTime' = now + recoveryTimeout
    /\ ev' = Event("forceOpen", "none", "none", <<"OPEN">>)
    /\ openedAt' = now
    /\ blocked' = 0
    /\ UNCHANGED <<failureCount, lastFailureTime, requestCount,
                   successCount, config, now, inflight, calls>>

\* Variant: forceClose() that keeps the failure count
forceClose_keepsCount ==
    /\ state' = "CLOSED"
    /\ nextAttemptTime' = NULL
    /\ ev' = Event("forceClose", "none", "none", <<"CLOSED">>)
    /\ openedAt' = NULL
    /\ blocked' = 0
    /\ UNCHANGED <<failureCount, lastFailureTime, requestCount,
                   successCount, config, now, inflight, calls>>

forceClose ==
    /\ state' = "CLOSED"
    /\ failureCount' = 0
    /\ nextAttemptTime' = NULL
    /\ ev' = Event("forceClose", "none", "none", <<"CLOSED">>)
    /\ openedAt' = NULL
    /\ blocked' = 0
    /\ UNCHANGED <<lastFailureTime, requestCount, successCount, config,
                   now, inflight, calls>>

\* The breaker on its own: the record of completed calls is not kept
Next ==
    \/ Tick /\ UNCHANGED <<hist, cacheVars, managerVars>>
    \/ \E f \in FallbackKinds : ExecuteStart(f) /\ UNCHANGED <<hist, cacheVars, managerVars>>
    \/ \E call \in Calls : OpSucceed(call) /\ UNCHANGED <<hist, cacheVars, managerVars>>
    \/ \E call \in Calls : OpFail(call) /\ UNCHANGED <<hist, cacheVars, managerVars>>
    \/ reset /\ UNCHANGED <<hist, cacheVars, managerVars>>
    \/ forceOpen /\ UNCHANGED <<hist, cacheVars, managerVars>>
    \/ forceClose /\ UNCHANGED <<hist, cacheVars, managerVars>>

Spec == Init /\ [][Next]_vars

SpecHooks == InitHooks /\ [][Next]_vars

TypeOK ==
    /\ state \in {"CLOSED", "OPEN", "HALF_OPEN"}
    /\ failureCount \in Nat
    /\ lastFailureTime \in {NULL} \cup 0..MaxTime
    /\ nextAttemptTime \in {NULL} \cup 0..(MaxTime + recoveryTimeout)
    /\ requestCount \in 0..MaxCalls
    /\ successCount \in Nat
    /\ failureThreshold \in 1..MaxThreshold
    /\ hookThrows \subseteq HookNames
    /\ now \in 0..MaxTime
    /\ BagToSet(inflight) \subseteq Calls
    /\ BagCardinality(inflight) <= MaxInFlight
    /\ calls \in 0..MaxCalls
    /\ openedAt \in {NULL} \cup 0..MaxTime
    /\ blocked \in 0..MaxBlocked

\* ------------------------------------------------- reading one step

\* execute() was called in this step
ExecuteCalled == calls' = calls + 1

\* an execute() call invoked its operation in this step
Started == BagCardinality(inflight') = BagCardinality(inflight) + 1

\* the operation of an execute() call settled in this step
Succeeded == inflight' # inflight /\ ev'.kind = "success"
Failed == inflight' # inflight /\ ev'.kind = "failure"

\* the call that moved the breaker to HALF_OPEN has not settled
TrialInFlight == \E call \in BagToSet(inflight) : call.trial

\* ------------------------------------------------------------ claims

\* C1: from CLOSED, the failure that brings the failure count to
\* failureThreshold leaves the breaker OPEN; once the run of failures has
\* opened it, no further step of an execute call fires onStateChange("OPEN")
\* while it stays OPEN (the transition is notified exactly once); and an
\* execute call made while OPEN before nextAttemptTime does not invoke the
\* operation.
C1_OpensExactlyOnce ==
    [][ /\ (Failed /\ state = "CLOSED"
               /\ failureCount + 1 >= failureThreshold)
           => (state' = "OPEN" /\ Fired(ev'.hooks, "OPEN"))
        /\ (state = "OPEN" /\ failureCount >= failureThreshold
               /\ ev'.kind \in {"start", "short", "success", "failure"})
           => ~Fired(ev'.hooks, "OPEN")
        /\ (state = "OPEN" /\ now < ToNumber(nextAttemptTime)
               /\ ExecuteCalled)
           => inflight' = inflight
      ]_vars

\* C2: an execute call made while OPEN at or after nextAttemptTime moves
\* the breaker to HALF_OPEN and invokes the operation, and an execute call
\* that is short-circuited leaves nextAttemptTime unchanged.
C2_TrialAfterRecovery ==
    [][ /\ (ExecuteCalled /\ state = "OPEN"
               /\ now >= ToNumber(nextAttemptTime))
           => (state' = "HALF_OPEN" /\ Started)
        /\ (ExecuteCalled /\ ~Started)
           => nextAttemptTime' = nextAttemptTime
      ]_vars

\* C2 witness: a trial call was let through after two calls were blocked
C2_Witness ==
    state = "HALF_OPEN" /\ ev.kind = "start" /\ blocked >= 2
        /\ TrialInFlight

\* C3: in HALF_OPEN, a failed operation returns the breaker to OPEN with
\* nextAttemptTime = time of the failure + recoveryTimeout.
C3_HalfOpenFailureReopens ==
    [][ (state = "HALF_OPEN" /\ Failed)
        => (state' = "OPEN" /\ nextAttemptTime' = now + recoveryTimeout)
      ]_vars

\* C4: in HALF_OPEN, a successful operation moves the breaker to CLOSED
\* with failureCount = 0, and execute returns the operation's result.
C4_HalfOpenSuccessCloses ==
    [][ (state = "HALF_OPEN" /\ Succeeded)
        => (state' = "CLOSED" /\ failureCount' = 0
              /\ ev'.outcome = "result")
      ]_vars

\* C4 witness: a success has just closed the breaker from HALF_OPEN
C4_Witness ==
    state = "CLOSED" /\ ev.kind = "success" /\ Fired(ev.hooks, "CLOSED")
        /\ lastFailureTime # NULL

\* C5: while HALF_OPEN with the trial call still in flight, no other
\* execute call invokes the operation.
C5_SingleTrial ==
    [][ (state = "HALF_OPEN" /\ TrialInFlight) => ~Started ]_vars

\* C6: an execute call on an OPEN breaker before nextAttemptTime does not
\* invoke the operation, leaves state, failureCount, requestCount and
\* successCount unchanged, and settles with the fallback's outcome when a
\* fallback was supplied and with the circuit-open error otherwise.
C6_OpenShortCircuit ==
    [][ (ExecuteCalled /\ state = "OPEN" /\ now < ToNumber(nextAttemptTime))
        => /\ inflight' = inflight
           /\ state' = state
           /\ failureCount' = failureCount
           /\ requestCount' = requestCount
           /\ successCount' = successCount
           /\ ev'.outcome =
                  CASE ev'.fallback = "none" -> "open_error"
                    [] ev'.fallback = "fn_throws" -> "fallback_failed"
                    [] OTHER -> "fallback_result"
      ]_vars

\* C7: a failed operation is recorded (failureCount + 1, lastFailureTime =
\* now); the fallback is invoked exactly when one was supplied and the
\* breaker is OPEN after recording, and otherwise the operation's error is
\* propagated.
C7_FailureThenFallback ==
    [][ Failed
        => /\ failureCount' = failureCount + 1
           /\ lastFailureTime' = now
           /\ IF ev'.fallback # "none" /\ state' = "OPEN"
              THEN ev'.outcome \in {"fallback_result", "fallback_failed"}
              ELSE ev'.outcome = "op_error"
      ]_vars

\* C8: a throwing hook does not affect the breaker: a successful operation
\* is counted as a success, never as a failure, and its result is returned;
\* a failed operation never settles with the hook's error.
C8_HooksDoNotAffectBreaker ==
    [][ /\ Succeeded
           => /\ ev'.outcome = "result"
              /\ successCount' = successCount + 1
              /\ failureCount' = 0
              /\ lastFailureTime' = lastFailureTime
              /\ state' = IF state = "HALF_OPEN" THEN "CLOSED" ELSE state
        /\ Failed => ev'.outcome # "hook_error"
      ]_vars

\* C9: state = CLOSED implies failureCount < failureThreshold.
C9_ClosedBelowThreshold ==
    state = "CLOSED" => failureCount < failureThreshold

\* C9 witness: a failure was recorded and the breaker stays CLOSED, one
\* failure short of the threshold
C9_Witness ==
    state = "CLOSED" /\ ev.kind = "failure" /\ failureCount > 0
        /\ failureCount = failureThreshold - 1

\* C10 as stated: state = OPEN implies nextAttemptTime is set and equals
\* lastFailureTime + recoveryTimeout.
C10_OpenNextAttemptFromLastFailure ==
    state = "OPEN"
    => /\ nextAttemptTime # NULL
       /\ lastFailureTime # NULL
       /\ nextAttemptTime = lastFailureTime + recoveryTimeout

\* C10 amended: state = OPEN implies nextAttemptTime is set and equals the
\* time at which the state was last set to OPEN (by a failure at or above
\* the threshold or by forceOpen()) plus recoveryTimeout.
C10_OpenNextAttemptFromOpening ==
    state = "OPEN"
    => /\ nextAttemptTime # NULL
       /\ openedAt # NULL
       /\ nextAttemptTime = openedAt + recoveryTimeout

\* C10 witness: OPEN at a time when the last recorded failure is not the
\* event that opened the circuit
C10_Witness ==
    state = "OPEN" /\ lastFailureTime # NULL /\ openedAt # NULL
        /\ lastFailureTime # openedAt

\* ------------------------------------- execute calls, one after another

\* The fields of a breaker as the constructor leaves them
NewBreaker ==
    [state |-> "CLOSED", failureCount |-> 0,
     lastFailureTime |-> NULL, nextAttemptTime |-> NULL,
     requestCount |-> 0, successCount |-> 0]

\* A settled execute() call: its fallback argument, whether its operation
\* was invoked and, if so, whether it resolved, and what the call settled
\* with
Done(f, invoked, ok, outcome) ==
    [fallback |-> f, invoked |-> invoked, ok |-> ok, outcome |-> outcome]

\* execute(operation, fallback) run from its first to its last statement
\* with no other call in between, on fields b at time t; ok tells whether
\* the operation resolves
execute(b, t, f, ok) ==
    IF b.state = "OPEN" /\ ~canAttemptReset(b, t)
    THEN [b |-> b, outcome |-> handleOpenCircuit(f), invoked |-> FALSE]
    ELSE IF b.state = "OPEN" /\ "onStateChange" \in hookThrows
    THEN [b |-> [b EXCEPT !.state = "HALF_OPEN"], outcome |-> "hook_error",
          invoked |-> FALSE]
    ELSE LET b1 == [b EXCEPT !.state = IF @ = "OPEN" THEN "HALF_OPEN" ELSE @,
                             !.requestCount = @ + 1]
             r == onCallSuccess(b1)
             k == CatchBlock(IF ok THEN r.b ELSE b1, t, f,
                             IF ok THEN "hook_error" ELSE "op_error")
         IN  IF ok /\ ~r.threw
             THEN [b |-> r.b, outcome |-> "result", invoked |-> TRUE]
             ELSE [b |-> k.b, outcome |-> k.outcome, invoked |-> TRUE]

\* The settled calls h run one after another in the order given by order,
\* call order[i] at time times[i], an operation that was never invoked
\* resolving as oks says: the fields reached, or Mismatch as soon as a call
\* does not settle the way it did in h
Mismatch == [state |-> "MISMATCH"]

RECURSIVE Replay(_, _, _, _, _, _)
Replay(b, h, order, times, oks, i) ==
    IF i > Len(h) THEN b
    ELSE LET d == h[order[i]]
             r == execute(b, times[i], d.fallback,
                          IF d.invoked THEN d.ok ELSE oks[i])
         IN  IF r.outcome = d.outcome /\ r.invoked = d.invoked
             THEN Replay(r.b, h, order, times, oks, i + 1)
             ELSE Mismatch

\* Some sequential execution of the settled calls h, at instants that do
\* not decrease and do not exceed t, gives every call the outcome it had
\* in h and leaves the breaker with the fields final
Sequential(h, final, t) ==
    LET n == Len(h)
    IN  \E order \in Permutations(1..n) :
        \E times \in [1..n -> 0..t] :
        \E oks \in [1..n -> BOOLEAN] :
            /\ \A i \in 1..n : \A j \in 1..n : i < j => times[i] <= times[j]
            /\ Replay(NewBreaker, h, order, times, oks, 1) = final

\* The steps of execute(), each settled call entered in the record
ExecuteStartRecorded(f) ==
    /\ ExecuteStart(f)
    /\ hist' = IF ev'.kind = "start" THEN hist
               ELSE Append(hist, Done(f, FALSE, FALSE, ev'.outcome))
    /\ UNCHANGED <<cacheVars, managerVars>>

OpSucceedRecorded(call) ==
    /\ OpSucceed(call)
    /\ hist' = Append(hist, Done(call.fallback, TRUE, TRUE, ev'.outcome))
    /\ UNCHANGED <<cacheVars, managerVars>>

OpFailRecorded(call) ==
    /\ OpFail(call)
    /\ hist' = Append(hist, Done(call.fallback, TRUE, FALSE, ev'.outcome))
    /\ UNCHANGED <<cacheVars, managerVars>>

\* execute() calls only, overlapping freely, on a breaker that is neither
\* reset nor forced
NextExecute ==
    \/ Tick /\ UNCHANGED <<hist, cacheVars, managerVars>>
    \/ \E f \in FallbackKinds : ExecuteStartRecorded(f)
    \/ \E call \in Calls : OpSucceedRecorded(call)
    \/ \E call \in Calls : OpFailRecorded(call)

SpecExecute == Init /\ [][NextExecute]_vars

\* C11: whenever no execute call is in flight, the outcomes of the calls
\* made so far and the fields of the breaker are those of some sequential
\* execution of the same calls.
C11_Linearizable ==
    inflight = EmptyBag => Sequential(hist, This, now)

\* --------------------------------------------------------- getMetrics

\* A quotient of two integers, kept as the pair the division is made of
Quotient(n, d) == [num |-> n, den |-> d]

\* Two quotients of nonzero denominators are the same number
SameNumber(p, q) == p.num * q.den = q.num * p.den

\* Variant: the failure rate taken from the consecutive-failure count
getMetrics_failureCount(b) ==
    [state |-> b.state,
     failureCount |-> b.failureCount,
     successCount |-> b.successCount,
     requestCount |-> b.requestCount,
     failureRate |-> IF b.requestCount > 0
                     THEN Quotient(b.failureCount, b.requestCount)
                     ELSE Quotient(0, 1),
     lastFailureTime |-> b.lastFailureTime,
     nextAttemptTime |-> b.nextAttemptTime]

\* getMetrics() on fields b, without the uptime figure
getMetrics(b) ==
    [state |-> b.state,
     failureCount |-> b.failureCount,
     successCount |-> b.successCount,
     requestCount |-> b.requestCount,
     failureRate |-> IF b.requestCount > 0
                     THEN Quotient(b.requestCount - b.successCount,
                                   b.requestCount)
                     ELSE Quotient(0, 1),
     lastFailureTime |-> b.lastFailureTime,
     nextAttemptTime |-> b.nextAttemptTime]

\* C12: in every reachable state the snapshot of getMetrics() reports the
\* current requestCount and successCount, and its failureRate is
\* (requestCount - successCount) / requestCount of those two figures, and
\* 0 when requestCount is 0.
C12_FailureRate ==
    LET m == getMetrics(This)
    IN  /\ m.requestCount = requestCount
        /\ m.successCount = successCount
        /\ m.requestCount = 0 => SameNumber(m.failureRate, Quotient(0, 1))
        /\ m.requestCount > 0 =>
               /\ m.failureRate.den # 0
               /\ SameNumber(m.failureRate,
                      Quotient(m.requestCount - m.successCount,
                               m.requestCount))

\* C12 witness: requests were made, some succeeded and some did not, and
\* failureCount is not the number of requests that did not succeed
C12_Witness ==
    /\ requestCount > 1
    /\ successCount > 0
    /\ successCount < requestCount
    /\ inflight = EmptyBag
    /\ failureCount # requestCount - successCount

\* ------------------------------------------- cacheAsideWithLock
\* (AdvancedCacheStrategies.js, over the cache of CacheManager.js).  One
\* key, requested by NumCallers callers with one loader.  A call is split
\* where it is suspended: at each await cacheManager.get(key), at each
\* sleep of waitForLock, and at await lockPromise.  A loader invocation
\* resolves with a value of its own (the number of the caller that made
\* it) or with null, or rejects.  The clock of this part counts fractions
\* of the poll interval of waitForLock; the TTL of the entries it writes,
\* whole seconds in the code, lies far beyond the horizon.

\* the sleep of waitForLock (50 ms in the code)
PollInterval == 2

\* options.lockTimeout
lockTimeout == 3

\* options.ttl
defaultTtl == 300

CallerIds == 1..NumCallers

\* cacheManager.get(key): the value held, null for a key that is not
cacheManagerGet(st, key) == st[key].value

\* cacheManager.set(key, value, ttl) at time t, on MemoryCacheStrategy: the
\* value replaces the one held and a TTL timer is armed when ttl > 0
cacheManagerSet(st, key, v, ttl, t) ==
    [st EXCEPT ![key] = Entry(v, IF ttl > 0 THEN t + ttl ELSE NULL)]

\* Variant: waitForLock without the timeout
waitForLock_noTimeout(locked, elapsed) == locked

\* The loop condition of waitForLock: keep sleeping
waitForLock(locked, elapsed) == locked /\ elapsed < lockTimeout

\* what a step of the coordinator did, and the value it returned
CacheEvent(kind, v) == [kind |-> kind, value |-> v]

\* some load started by cacheAsideWithLock has settled
LoadSettled ==
    \E c \in CallerIds :
        \/ callers[c].pc = "failed"
        \/ callers[c].pc = "done" /\ callers[c].ret \in {c, NULL}

\* loaders in flight
Loading == {c \in CallerIds : callers[c].pc = "load"}

\* loader invocations made so far
LoaderCalls ==
    {c \in CallerIds :
        \/ callers[c].pc \in {"load", "failed"}
        \/ callers[c].pc = "done" /\ callers[c].ret \in {c, NULL}}

\* cacheAsideWithLock(key, dataLoader) is called: cacheManager.get(key)
\* is issued
cacheAsideWithLock(c) ==
    /\ callers[c].pc = "idle"
    /\ callers' = [callers EXCEPT ![c].pc = "get1"]
    /\ cev' = CacheEvent("call", NULL)
    /\ UNCHANGED <<store, lockManager, burst>>

\* lines 38-40: loadDataWithLock invokes the loader, the promise is
\* registered as the lock
AcquireLock(c) ==
    /\ callers' = [callers EXCEPT ![c].pc = "load"]
    /\ lockManager' = TRUE
    /\ cev' = CacheEvent("load", NULL)
    /\ UNCHANGED store

\* the first read of the cache returns: a hit is returned, a miss waits for
\* a pending lock or starts the load.  History: burst holds as long as
\* every caller found the key missing before any load had settled
FirstGet(c) ==
    /\ callers[c].pc = "get1"
    /\ burst' = (burst /\ ~LoadSettled)
    /\ LET data == cacheManagerGet(store, "key")
       IN  IF data # NULL
           THEN /\ callers' = [callers EXCEPT ![c].pc = "done",
                                              ![c].ret = data]
                /\ cev' = CacheEvent("hit", data)
                /\ UNCHANGED <<store, lockManager>>
           ELSE IF lockManager
           THEN /\ callers' = [callers EXCEPT
                                  ![c].pc = "wait", ![c].start = now,
                                  ![c].wake = now + PollInterval]
                /\ cev' = CacheEvent("wait", NULL)
                /\ UNCHANGED <<store, lockManager>>
           ELSE AcquireLock(c)

\* a sleep of waitForLock ends: sleep again, or leave the loop and issue
\* the second read of the cache
Poll(c) ==
    /\ callers[c].pc = "wait"
    /\ now >= callers[c].wake
    /\ IF waitForLock(lockManager, now - callers[c].start)
       THEN callers' = [callers EXCEPT ![c].wake = now + PollInterval]
       ELSE callers' = [callers EXCEPT ![c].pc = "get2", ![c].wake = NULL]
    /\ cev' = CacheEvent("poll", NULL)
    /\ UNCHANGED <<store, lockManager, burst>>

\* the second read of the cache returns: a hit is returned, a miss starts
\* the load
SecondGet(c) ==
    /\ callers[c].pc = "get2"
    /\ LET data == cacheManagerGet(store, "key")
       IN  IF data # NULL
           THEN /\ callers' = [callers EXCEPT ![c].pc = "done",
                                              ![c].ret = data]
                /\ cev' = CacheEvent("hit", data)
                /\ UNCHANGED <<store, lockManager>>
           ELSE AcquireLock(c)
    /\ UNCHANGED burst

\* the loader resolves with v: the value is cached and returned, and the
\* finally block deletes the lock of the key
LoaderResolves(c, v) ==
    /\ callers[c].pc = "load"
    /\ store' = cacheManagerSet(store, "key", v, defaultTtl, now)
    /\ lockManager' = FALSE
    /\ callers' = [callers EXCEPT ![c].pc = "done", ![c].ret = v]
    /\ cev' = CacheEvent("loaded", v)
    /\ UNCHANGED burst

\* the loader rejects: the error is rethrown to the caller, and the finally
\* block deletes the lock of the key
LoaderRejects(c) ==
    /\ callers[c].pc = "load"
    /\ lockManager' = FALSE
    /\ callers' = [callers EXCEPT ![c].pc = "failed"]
    /\ cev' = CacheEvent("load_failed", NULL)
    /\ UNCHANGED <<store, burst>>

\* time passes, up to the next timer that is due: a sleep of waitForLock
\* or the TTL timer of a cache entry
Advance ==
    /\ now < MaxClock
    /\ \A c \in CallerIds : callers[c].pc = "wait" => callers[c].wake > now
    /\ \A k \in CacheKeys :
           store[k].expires # NULL => store[k].expires > now
    /\ now' = now + 1
    /\ cev' = CacheEvent("advance", NULL)
    /\ UNCHANGED <<store, lockManager, callers, burst, tasks>>

\* the coordinator on its own: the breaker and the record of its calls
\* stay as constructed
NextLock ==
    \/ \E c \in CallerIds :
           cacheAsideWithLock(c) /\ UNCHANGED <<now, breakerVars, hist, tasks, managerVars>>
    \/ \E c \in CallerIds :
           FirstGet(c) /\ UNCHANGED <<now, breakerVars, hist, tasks, managerVars>>
    \/ \E c \in CallerIds :
           Poll(c) /\ UNCHANGED <<now, breakerVars, hist, tasks, managerVars>>
    \/ \E c \in CallerIds :
           SecondGet(c) /\ UNCHANGED <<now, breakerVars, hist, tasks, managerVars>>
    \/ \E c \in CallerIds : \E v \in {c, NULL} :
           LoaderResolves(c, v) /\ UNCHANGED <<now, breakerVars, hist, tasks, managerVars>>
    \/ \E c \in CallerIds :
           LoaderRejects(c) /\ UNCHANGED <<now, breakerVars, hist, tasks, managerVars>>
    \/ Advance /\ UNCHANGED <<breakerVars, hist, managerVars>>

\* the breaker next to the coordinator is built with its smallest threshold
InitLock == Init /\ failureThreshold = 1

SpecLock == InitLock /\ [][NextLock]_vars

TypeOKLock ==
    /\ \A k \in CacheKeys :
           /\ store[k].value \in CallerIds \cup {NULL}
           /\ store[k].expires \in Nat \cup {NULL}
    /\ lockManager \in BOOLEAN
    /\ \A c \in CallerIds :
           /\ callers[c].pc \in
                  {"idle", "get1", "wait", "get2", "load", "done", "failed"}
           /\ callers[c].ret \in CallerIds \cup {NULL}
    /\ burst \in BOOLEAN
    /\ now \in 0..MaxClock

\* C13: when all the callers of cacheAsideWithLock found the key missing
\* before any load had settled (K concurrent callers of one missing key),
\* the loader is
\* invoked at most once in total and all callers that have returned
\* returned the same value.
C13_LoaderAtMostOnce ==
    burst =>
        /\ Cardinality(LoaderCalls) <= 1
        /\ \A c \in CallerIds : \A d \in CallerIds :
               (callers[c].pc = "done" /\ callers[d].pc = "done")
               => callers[c].ret = callers[d].ret

\* C14: at most one loader invocation started by cacheAsideWithLock is in
\* flight for the key.
C14_OneLoaderInFlight == Cardinality(Loading) <= 1

\* C15: the lock registry holds an entry for the key exactly while a load
\* for the key is in flight.
C15_LockWhileLoading == lockManager <=> Loading # {}

\* C16: a waiting caller has waited no longer than lockTimeout plus one
\* poll interval and is not failed by the wait; once the wait has ended the
\* caller returns the cached value if the cache holds one and otherwise
\* invokes the loader itself, whose result it returns.
C16_WaitIsBounded ==
    [][ \A c \in CallerIds :
          /\ callers[c].pc = "wait" =>
                /\ now - callers[c].start <= lockTimeout + PollInterval
                /\ callers'[c].pc \in {"wait", "get2"}
          /\ (callers[c].pc = "get2" /\ callers'[c].pc # "get2") =>
                IF cacheManagerGet(store, "key") # NULL
                THEN /\ callers'[c].pc = "done"
                     /\ callers'[c].ret = cacheManagerGet(store, "key")
                     /\ Loading' = Loading
                ELSE /\ callers'[c].pc = "load"
                     /\ Loading' = Loading \cup {c}
          /\ (callers[c].pc = "load" /\ callers[c].start # NULL
                /\ callers'[c].pc # "load") =>
                \/ callers'[c].pc = "done" /\ cev'.kind = "loaded"
                      /\ callers'[c].ret = cev'.value
                \/ callers'[c].pc = "failed" /\ cev'.kind = "load_failed"
      ]_vars

\* C16 witness: a caller waited the timeout out behind a loader that is
\* still running, ran the loader itself and returned its result
C16_Witness ==
    \E c \in CallerIds : \E d \in CallerIds :
        /\ callers[c].pc = "done" /\ callers[c].start # NULL
        /\ callers[c].ret = c
        /\ callers[d].pc = "load" /\ callers[d].start = NULL

\* --------------------------- staleWhileRevalidate and writeThrough
\* (AdvancedCacheStrategies.js).  The clock of this part counts seconds,
\* the unit of ttl and staleTime.  A call is split where it awaits the
\* loader or the persist function; the two cache reads of
\* getCacheEntryWithMetadata and the decision on the age are one step.
\* The metadata object {timestamp, ttl} is kept as its timestamp: its ttl
\* field is written and never read.

\* values a loader resolves with, and values handed to writeThrough
DataValues == {1, 2}

\* options.ttl
Ttls == {1, 2}

\* options of staleWhileRevalidate: staleTime two seconds above ttl
SwrOptions ==
    {[ttl |-> t, staleTime |-> t + 2, backgroundRefresh |-> g] :
        t \in Ttls, g \in BOOLEAN}

\* the metadata key outlives the data key by 60 seconds
MetaExtra == 60

\* a suspended call: a staleWhileRevalidate call awaiting its loader
\* ("load"), a background refresh awaiting its loader ("refresh"), a
\* writeThrough call awaiting persist(data) ("persist")
Task(kind, ttl, data) == [kind |-> kind, ttl |-> ttl, data |-> data]

Tasks ==
    {Task(k, t, NULL) : k \in {"load", "refresh"}, t \in Ttls}
        \cup {Task("persist", t, d) : t \in Ttls, d \in DataValues}

\* what a step of staleWhileRevalidate did, with the options of the call
SwrEvent(kind, v, o) == [kind |-> kind, value |-> v, options |-> o]

NoEntry == [data |-> NULL, timestamp |-> NULL]

getCacheEntryWithMetadata(st) ==
    LET data == cacheManagerGet(st, "key")
        metadata == cacheManagerGet(st, "meta:key")
    IN  IF data # NULL /\ metadata # NULL
        THEN [data |-> data, timestamp |-> metadata]
        ELSE NoEntry

setCacheEntryWithMetadata(st, data, ttl, t) ==
    cacheManagerSet(cacheManagerSet(st, "key", data, ttl, t),
                    "meta:key", t, ttl + MetaExtra, t)

\* Variant: no stale window, whatever is not fresh is loaded
swrBranch_noStaleWindow(e, age, o) ==
    IF e # NoEntry /\ age < o.ttl THEN "fresh" ELSE "load"

\* The branch staleWhileRevalidate takes for cache entry e of the given age
swrBranch(e, age, o) ==
    IF e # NoEntry /\ age < o.ttl THEN "fresh"
    ELSE IF e # NoEntry /\ age < o.staleTime THEN "stale"
    ELSE "load"

Spawn(task) ==
    /\ BagCardinality(tasks) < MaxTasks
    /\ tasks' = tasks (+) SetToBag({task})

Finish(task) == tasks' = tasks (-) SetToBag({task})

\* staleWhileRevalidate(key, dataLoader, o) up to its return or to its
\* await dataLoader(); the background refresh is entered when it is
\* scheduled with setImmediate
staleWhileRevalidate(o) ==
    LET e == getCacheEntryWithMetadata(store)
        branch == swrBranch(e, now - e.timestamp, o)
    IN  /\ CASE branch = "fresh" ->
                  /\ cev' = SwrEvent("swr_fresh", e.data, o)
                  /\ UNCHANGED tasks
             [] branch = "stale" ->
                  /\ cev' = SwrEvent("swr_stale", e.data, o)
                  /\ IF o.backgroundRefresh
                     THEN Spawn(Task("refresh", o.ttl, NULL))
                     ELSE UNCHANGED tasks
             [] OTHER ->
                  /\ cev' = SwrEvent("swr_load", NULL, o)
                  /\ Spawn(Task("load", o.ttl, NULL))
        /\ UNCHANGED <<store, lockManager, callers, burst>>

\* the loader awaited by staleWhileRevalidate resolves with v
SwrLoaderResolves(task, v) ==
    /\ task.kind = "load" /\ BagIn(task, tasks)
    /\ store' = setCacheEntryWithMetadata(store, v, task.ttl, now)
    /\ Finish(task)
    /\ cev' = CacheEvent("swr_loaded", v)
    /\ UNCHANGED <<lockManager, callers, burst>>

\* the loader awaited by staleWhileRevalidate rejects: the call fails
SwrLoaderRejects(task) ==
    /\ task.kind = "load" /\ BagIn(task, tasks)
    /\ Finish(task)
    /\ cev' = CacheEvent("swr_failed", NULL)
    /\ UNCHANGED <<store, lockManager, callers, burst>>

\* the loader of a background refresh resolves with v
RefreshResolves(task, v) ==
    /\ task.kind = "refresh" /\ BagIn(task, tasks)
    /\ store' = setCacheEntryWithMetadata(store, v, task.ttl, now)
    /\ Finish(task)
    /\ cev' = CacheEvent("refresh_done", v)
    /\ UNCHANGED <<lockManager, callers, burst>>

\* Variant: a failed background refresh drops the entry
RefreshRejects_evicts(task) ==
    /\ task.kind = "refresh" /\ BagIn(task, tasks)
    /\ store' = [store EXCEPT !["key"] = Absent]
    /\ Finish(task)
    /\ cev' = CacheEvent("refresh_failed", NULL)
    /\ UNCHANGED <<lockManager, callers, burst>>

\* the loader of a background refresh rejects: the error is logged
RefreshRejects(task) ==
    /\ task.kind = "refresh" /\ BagIn(task, tasks)
    /\ Finish(task)
    /\ cev' = CacheEvent("refresh_failed", NULL)
    /\ UNCHANGED <<store, lockManager, callers, burst>>

\* Variant: writeThrough that writes the cache before persisting
writeThrough_cacheFirst(data, ttl) ==
    /\ Spawn(Task("persist", ttl, data))
    /\ store' = cacheManagerSet(store, "key", data, ttl, now)
    /\ cev' = CacheEvent("wt_call", data)
    /\ UNCHANGED <<lockManager, callers, burst>>

\* writeThrough(key, data, persistFunction, {ttl}) up to its
\* await persistFunction(data)
writeThrough(data, ttl) ==
    /\ Spawn(Task("persist", ttl, data))
    /\ cev' = CacheEvent("wt_call", data)
    /\ UNCHANGED <<store, lockManager, callers, burst>>

\* persist resolves: the cache is written, success is returned
PersistResolves(task) ==
    /\ task.kind = "persist" /\ BagIn(task, tasks)
    /\ store' = cacheManagerSet(store, "key", task.data, task.ttl, now)
    /\ Finish(task)
    /\ cev' = CacheEvent("wt_done", task.data)
    /\ UNCHANGED <<lockManager, callers, burst>>

\* persist rejects: the error is rethrown to the caller
PersistRejects(task) ==
    /\ task.kind = "persist" /\ BagIn(task, tasks)
    /\ Finish(task)
    /\ cev' = CacheEvent("wt_failed", task.data)
    /\ UNCHANGED <<store, lockManager, callers, burst>>

\* the TTL timer of MemoryCacheStrategy.set fires: the key is deleted
Expire(k) ==
    /\ store[k].expires # NULL
    /\ now >= store[k].expires
    /\ store' = [store EXCEPT ![k] = Absent]
    /\ cev' = CacheEvent("expire", NULL)
    /\ UNCHANGED <<lockManager, callers, burst, tasks>>

NextSwr ==
    \/ \E o \in SwrOptions :
           staleWhileRevalidate(o) /\ UNCHANGED <<now, breakerVars, hist, managerVars>>
    \/ \E task \in Tasks : \E v \in DataValues \cup {NULL} :
           SwrLoaderResolves(task, v) /\ UNCHANGED <<now, breakerVars, hist, managerVars>>
    \/ \E task \in Tasks :
           SwrLoaderRejects(task) /\ UNCHANGED <<now, breakerVars, hist, managerVars>>
    \/ \E task \in Tasks : \E v \in DataValues \cup {NULL} :
           RefreshResolves(task, v) /\ UNCHANGED <<now, breakerVars, hist, managerVars>>
    \/ \E task \in Tasks :
           RefreshRejects(task) /\ UNCHANGED <<now, breakerVars, hist, managerVars>>
    \/ \E d \in DataValues : \E t \in Ttls :
           writeThrough(d, t) /\ UNCHANGED <<now, breakerVars, hist, managerVars>>
    \/ \E task \in Tasks :
           PersistResolves(task) /\ UNCHANGED <<now, breakerVars, hist, managerVars>>
    \/ \E task \in Tasks :
           PersistRejects(task) /\ UNCHANGED <<now, breakerVars, hist, managerVars>>
    \/ \E k \in CacheKeys :
           Expire(k) /\ UNCHANGED <<now, breakerVars, hist, managerVars>>
    \/ Advance /\ UNCHANGED <<breakerVars, hist, managerVars>>

SpecSwr == InitLock /\ [][NextSwr]_vars

TypeOKSwr ==
    /\ store["key"].value \in DataValues \cup {NULL}
    /\ store["meta:key"].value \in 0..MaxClock \cup {NULL}
    /\ \A k \in CacheKeys : store[k].expires \in Nat \cup {NULL}
    /\ BagToSet(tasks) \subseteq Tasks
    /\ BagCardinality(tasks) <= MaxTasks
    /\ now \in 0..MaxClock

\* ------------------------------------------- reading one cache step

\* staleWhileRevalidate was called in this step
SwrCalled == cev'.kind \in {"swr_fresh", "swr_stale", "swr_load"}

\* the cache holds the data key and its metadata
EntryPresent ==
    store["key"].value # NULL /\ store["meta:key"].value # NULL

\* the age of the entry the metadata describes
Age == now - store["meta:key"].value

\* the ttl the metadata was last written with by setCacheEntryWithMetadata
WrittenTtl ==
    store["meta:key"].expires - MetaExtra - store["meta:key"].value

\* the data key holds a null, which reads like a key that is not held
StoredNull == store["key"].value = NULL /\ store["key"].expires # NULL

\* the step is of the given kind
Did(kind) == cev'.kind = kind

\* C17: for an entry written by staleWhileRevalidate with ttl (a null
\* written as data apart), a call with the same ttl made when the age of
\* the entry is at least ttl and below staleTime returns the value
\* previously cached and, with backgroundRefresh, starts exactly one
\* background loader call.
C17_StaleServedInWindow ==
    [][ (/\ SwrCalled
         /\ store["meta:key"].value # NULL
         /\ ~StoredNull
         /\ WrittenTtl = cev'.options.ttl
         /\ Age >= cev'.options.ttl
         /\ Age < cev'.options.staleTime)
        => /\ cev'.kind = "swr_stale"
           /\ store["key"].value # NULL
           /\ cev'.value = store["key"].value
           /\ tasks' = IF cev'.options.backgroundRefresh
                       THEN tasks (+) SetToBag(
                                {Task("refresh", cev'.options.ttl, NULL)})
                       ELSE tasks
      ]_vars

\* C18: a staleWhileRevalidate call on an entry younger than ttl returns
\* the cached value without invoking the loader; the call invokes the
\* loader before returning exactly when the entry is missing or its age is
\* at least staleTime, and when that loader resolves its result is stored
\* with the current time as timestamp and returned.
C18_FreshOrLoad ==
    [][ /\ (SwrCalled /\ EntryPresent /\ Age < cev'.options.ttl)
           => /\ cev'.kind = "swr_fresh"
              /\ cev'.value = store["key"].value
              /\ tasks' = tasks
        /\ SwrCalled
           => /\ cev'.kind = "swr_load"
                 <=> (~EntryPresent \/ Age >= cev'.options.staleTime)
              /\ cev'.kind = "swr_load"
                 <=> \E t \in Ttls :
                        tasks' = tasks (+) SetToBag({Task("load", t, NULL)})
        /\ Did("swr_loaded")
           => /\ store'["key"].value = cev'.value
              /\ store'["meta:key"].value = now
      ]_vars

\* C18 witness: the loader was invoked for an entry that is still cached,
\* because its age has reached staleTime
C18_Witness ==
    /\ cev.kind = "swr_load"
    /\ EntryPresent
    /\ Age >= cev.options.staleTime

\* C19: a call that serves a stale value returns it in the step that
\* schedules the refresh, the refresh then still pending; a refresh whose
\* loader rejects fails no call and leaves the cached value, its timestamp
\* and the other suspended calls as they are; a refresh whose loader
\* resolves stores its result with the current time as timestamp.
C19_RefreshInBackground ==
    [][ /\ Did("swr_stale")
           => /\ cev'.value = store["key"].value
              /\ store' = store
              /\ cev'.options.backgroundRefresh
                 => BagIn(Task("refresh", cev'.options.ttl, NULL), tasks')
        /\ Did("refresh_failed")
           => /\ store' = store
              /\ \E t \in Ttls :
                    tasks = tasks' (+) SetToBag({Task("refresh", t, NULL)})
        /\ Did("refresh_done")
           => /\ store'["key"].value = cev'.value
              /\ store'["meta:key"].value = now
      ]_vars

\* C19 witness: a background refresh has failed and the stale value it was
\* to replace is still cached under its old timestamp
C19_Witness ==
    /\ cev.kind = "refresh_failed"
    /\ EntryPresent
    /\ Age > 0

\* C20: the step in which writeThrough calls persist(data) leaves the
\* cache as it is; the cache is written with data in the step in which
\* persist resolves; when persist rejects the call fails and the cache is
\* left as it is.
C20_PersistBeforeCache ==
    [][ /\ Did("wt_call")
           => /\ store' = store
              /\ \E t \in Ttls :
                    tasks' = tasks (+)
                        SetToBag({Task("persist", t, cev'.value)})
        /\ Did("wt_done")
           => /\ store'["key"].value = cev'.value
              /\ \E t \in Ttls :
                    BagIn(Task("persist", t, cev'.value), tasks)
        /\ Did("wt_failed") => store' = store
        /\ store'["key"] # store["key"]
           => cev'.kind \in {"wt_done", "swr_loaded", "refresh_done",
                             "expire"}
      ]_vars

\* C20 witness: persist has rejected for a value that differs from the one
\* cached, and the cached one is still there
C20_Witness ==
    /\ cev.kind = "wt_failed"
    /\ store["key"].value # NULL
    /\ store["key"].value # cev.value

\* ------------------------------------------------------------ writeBehind

\* options.writeDelay, in ticks of the clock
WriteDelays == {0, 1, 2}

\* A write-behind whose persist is still to come: the data, the time of the
\* call, its writeDelay, whether the timer is pending ("timer") or
\* persistFunction(data) has been invoked and not settled ("persist"), and
\* its rank among those still to come, in the order of the calls
Write(data, at, delay, pc, seq) ==
    [data |-> data, at |-> at, delay |-> delay, pc |-> pc, seq |-> seq]

Writes ==
    {Write(d, t, w, pc, n) : d \in DataValues, t \in 0..MaxClock,
                             w \in WriteDelays, pc \in {"timer", "persist"},
                             n \in 1..MaxTasks}

\* the write-behinds that remain, ranked again from 1 in their order
Ranked(ws) ==
    SetToBag({[w EXCEPT !.seq =
                   1 + Cardinality({u \in BagToSet(ws) : u.seq < w.seq})] :
                  w \in BagToSet(ws)})

\* Variant: writeBehind that invokes persist before it returns
writeBehind_persistFirst(data, ttl, writeDelay) ==
    /\ BagCardinality(writes) < MaxTasks
    /\ store' = cacheManagerSet(store, "key", data, ttl, now)
    /\ writes' = writes (+) SetToBag({Write(data, now, writeDelay, "persist",
                                           BagCardinality(writes) + 1)})
    /\ cev' = CacheEvent("wb_success", data)
    /\ UNCHANGED <<lockManager, callers, burst, tasks>>

\* writeBehind(key, data, persistFunction, {ttl, writeDelay}): the cache
\* is written, the timer of the persist is armed, and the caller gets
\* { success: true, cached: true, backgroundWrite: true }
writeBehind(data, ttl, writeDelay) ==
    /\ BagCardinality(writes) < MaxTasks
    /\ store' = cacheManagerSet(store, "key", data, ttl, now)
    /\ writes' = writes (+) SetToBag({Write(data, now, writeDelay, "timer",
                                           BagCardinality(writes) + 1)})
    /\ cev' = CacheEvent("wb_success", data)
    /\ UNCHANGED <<lockManager, callers, burst, tasks>>

\* the timer of a write-behind fires: persistFunction(data) is invoked.
\* Timers of one delay that are due fire in the order they were armed
BehindTimerFires(w) ==
    /\ w \in BagToSet(writes)
    /\ w.pc = "timer"
    /\ now >= w.at + w.delay
    /\ \A u \in BagToSet(writes) :
           (u.pc = "timer" /\ u.delay = w.delay) => u.seq >= w.seq
    /\ writes' = (writes (-) SetToBag({w}))
                     (+) SetToBag({[w EXCEPT !.pc = "persist"]})
    /\ cev' = CacheEvent("wb_persist_called", w.data)
    /\ UNCHANGED <<store, lockManager, callers, burst, tasks>>

\* persistFunction resolves: the completion is logged
BehindPersistResolves(w) ==
    /\ w \in BagToSet(writes)
    /\ w.pc = "persist"
    /\ writes' = Ranked(writes (-) SetToBag({w}))
    /\ cev' = CacheEvent("wb_persisted", w.data)
    /\ UNCHANGED <<store, lockManager, callers, burst, tasks>>

\* persistFunction rejects: the error is caught and logged
BehindPersistRejects(w) ==
    /\ w \in BagToSet(writes)
    /\ w.pc = "persist"
    /\ writes' = Ranked(writes (-) SetToBag({w}))
    /\ cev' = CacheEvent("wb_persist_failed", w.data)
    /\ UNCHANGED <<store, lockManager, callers, burst, tasks>>

\* time passes, up to the next timer that is due, the timer of a
\* write-behind included
AdvanceBehind ==
    /\ Advance
    /\ \A w \in BagToSet(writes) : w.pc = "timer" => w.at + w.delay > now

NextBehind ==
    \/ \E d \in DataValues : \E t \in Ttls : \E w \in WriteDelays :
           /\ writeBehind(d, t, w)
           /\ UNCHANGED <<now, breakerVars, hist, restVars>>
    \/ \E w \in BagToSet(writes) :
           BehindTimerFires(w) /\ UNCHANGED <<now, breakerVars, hist, restVars>>
    \/ \E w \in BagToSet(writes) :
           /\ BehindPersistResolves(w)
           /\ UNCHANGED <<now, breakerVars, hist, restVars>>
    \/ \E w \in BagToSet(writes) :
           /\ BehindPersistRejects(w)
           /\ UNCHANGED <<now, breakerVars, hist, restVars>>
    \/ \E k \in CacheKeys :
           /\ Expire(k)
           /\ UNCHANGED <<now, breakerVars, hist, writes, restVars>>
    \/ AdvanceBehind /\ UNCHANGED <<breakerVars, hist, writes, restVars>>

SpecBehind == InitLock /\ [][NextBehind]_vars

TypeOKBehind ==
    /\ BagToSet(writes) \subseteq Writes
    /\ BagCardinality(writes) <= MaxTasks

\* C21: writeBehind writes the cache and returns success with the persist
\* still to come; persistFunction(data) is invoked when writeDelay has
\* elapsed since the call, not before and (timers firing on time) not
\* later; a persist failure changes neither the cache nor what any caller
\* got, every call having returned success at the cache write.
C21_WriteBehind ==
    [][ /\ Did("wb_success") =>
            /\ cev'.value = store'["key"].value
            /\ \E w \in BagToSet(writes') :
                   /\ w.data = cev'.value /\ w.at = now /\ w.pc = "timer"
                   /\ writes' = writes (+) SetToBag({w})
        /\ Did("wb_persist_called") =>
            \E w \in BagToSet(writes) :
                /\ w.pc = "timer" /\ w.data = cev'.value
                /\ now = w.at + w.delay
                /\ CopiesIn([w EXCEPT !.pc = "persist"], writes')
                       = CopiesIn([w EXCEPT !.pc = "persist"], writes) + 1
        /\ Did("wb_persist_failed") => store' = store
      ]_vars

\* a persist has failed after its call returned, and the value the call
\* cached is still held
C21_Witness ==
    /\ cev.kind = "wb_persist_failed"
    /\ store["key"].value = cev.value
    /\ now > 0

\* ------------------------------------------------ cacheWithCircuitBreaker

\* Date.now() counts from 1970: the clock of the model plus an offset that
\* exceeds every timeout
EpochOffset == 10

DateNow == now + EpochOffset

\* options.recoveryTimeout, options.fallbackTtl and options.ttl, in ticks
cbRecoveryTimeout == 2

fallbackTtl == 1

cbTtl == 2

\* What a loader invocation settles with: a value, or a thrown error
Thrown == -3

LoaderOutcomes == DataValues \cup {Thrown}

\* { error: "Service temporarily unavailable" }, returned by getFallbackData
ServiceUnavailable == -2

\* if (staleData): null, undefined, 0, "" and false do not pass
JsTruthy(v) == v \notin {NULL, 0}

\* getCircuitState(circuitKey): the object held by the in-memory store (the
\* very object, not a copy), or a new default object when none is held.
\* The entry is written with a TTL of 3600 s, which outlasts the clock.
getCircuitState(c) == IF c.held THEN c ELSE NoCircuit

\* setCircuitState(circuitKey, state): reads the circuit again, sets its
\* state, zeroes the failures on CLOSED, and caches the object
setCircuitState(c, st) ==
    LET currentState == getCircuitState(c)
    IN  [held |-> TRUE,
         state |-> st,
         failures |-> IF st = "CLOSED" THEN 0 ELSE currentState.failures,
         lastFailure |-> currentState.lastFailure]

\* getFallbackData(key, dataLoader, ttl) at time t, the loader settling with
\* outcome: the stale slot if it holds a truthy value, else the loader's
\* value, cached in the stale slot, else the error object
getFallbackData(sl, outcome, t) ==
    LET staleData == cacheManagerGet(sl, "stale:key")
    IN  IF JsTruthy(staleData)
        THEN [slots |-> sl, ret |-> staleData, loads |-> 0, threw |-> FALSE]
        ELSE IF outcome = Thrown
        THEN [slots |-> sl, ret |-> ServiceUnavailable, loads |-> 1,
              threw |-> TRUE]
        ELSE [slots |-> cacheManagerSet(sl, "stale:key", outcome,
                                        fallbackTtl, t),
              ret |-> outcome, loads |-> 1, threw |-> FALSE]

\* What a call returns and leaves behind
CbResult(c, sl, ret, path, loads, threw) ==
    [circuit |-> c, slots |-> sl, ret |-> ret, path |-> path,
     loads |-> loads, threw |-> threw]

\* lines 221-222 act on the object the call got from getCircuitState: the
\* cached object when there was one, an object of the call's own otherwise
recordFailure(c, local) == IF c.held THEN local ELSE c

\* One cacheWithCircuitBreaker(key, dataLoader, options) call, run without
\* interleaving at clock t (Date.now() = d): c is the cached circuit, sl
\* the slots, l1 and l2 what the first and second loader invocation of the
\* call settle with, thr options.failureThreshold
cbCall(c, sl, l1, l2, thr, t, d) ==
    LET first == getCircuitState(c)
    IN  IF first.state = "OPEN" /\ d - first.lastFailure < cbRecoveryTimeout
        THEN LET f == getFallbackData(sl, l1, t)
             IN  CbResult(c, f.slots, f.ret, "fallback", f.loads, f.threw)
        ELSE
        LET c1 == IF first.state = "OPEN"
                  THEN setCircuitState(c, "HALF_OPEN") ELSE c
            local == getCircuitState(c1)
            data == cacheManagerGet(sl, "key")
        IN  IF data # NULL
            THEN CbResult(IF local.state # "CLOSED"
                          THEN setCircuitState(c1, "CLOSED") ELSE c1,
                          sl, data, "normal", 0, FALSE)
            ELSE IF l1 # Thrown
            THEN CbResult(IF local.state # "CLOSED"
                          THEN setCircuitState(c1, "CLOSED") ELSE c1,
                          cacheManagerSet(sl, "key", l1, cbTtl, t),
                          l1, "normal", 1, FALSE)
            ELSE
            LET failed == [local EXCEPT !.failures = @ + 1,
                                        !.lastFailure = d]
                c2 == recordFailure(c1, failed)
                c3 == IF failed.failures >= thr
                      THEN setCircuitState(c2, "OPEN") ELSE c2
                f == getFallbackData(sl, l2, t)
            IN  CbResult(c3, f.slots, f.ret, "normal", 1 + f.loads, TRUE)

\* what a call did: the value returned, the path taken, the number of
\* loader invocations and whether one of them threw
CbEvent(r) ==
    [kind |-> "cb_call", value |-> r.ret, path |-> r.path,
     loads |-> r.loads, threw |-> r.threw]

\* cacheWithCircuitBreaker is called.  History: streak counts the latest
\* calls in a row in which the loader threw, tripTime is the time of the
\* failure that opened the circuit
cacheWithCircuitBreaker(l1, l2) ==
    /\ circuit.failures < MaxFailures
    /\ LET r == cbCall(circuit, slots, l1, l2, cbThreshold, now, DateNow)
       IN  /\ circuit' = r.circuit
           /\ slots' = r.slots
           /\ cev' = CbEvent(r)
           /\ streak' = IF r.threw
                        THEN (IF streak < MaxFailures THEN streak + 1
                              ELSE streak)
                        ELSE 0
           /\ tripTime' = IF r.circuit.state # "OPEN" THEN NULL
                          ELSE IF r.path = "normal" THEN DateNow
                          ELSE tripTime
    /\ UNCHANGED cbThreshold

\* the TTL timer of a slot fires
ExpireSlot(k) ==
    /\ slots[k].expires # NULL
    /\ now >= slots[k].expires
    /\ slots' = [slots EXCEPT ![k] = Absent]
    /\ cev' = CacheEvent("expire", NULL)
    /\ UNCHANGED <<circuit, cbThreshold, streak, tripTime>>

\* time passes, up to the next TTL timer that is due
AdvanceCb ==
    /\ now < MaxClock
    /\ \A k \in SlotKeys : slots[k].expires # NULL => slots[k].expires > now
    /\ now' = now + 1
    /\ cev' = CacheEvent("advance", NULL)
    /\ UNCHANGED <<circuit, slots, cbThreshold, streak, tripTime>>

\* what cacheWithCircuitBreaker does not touch
cbFrame ==
    <<breakerVars, hist, store, lockManager, callers, burst, tasks,
      nonCircuitVars>>

NextCb ==
    \/ \E l1 \in LoaderOutcomes : \E l2 \in LoaderOutcomes :
           cacheWithCircuitBreaker(l1, l2) /\ UNCHANGED <<now, cbFrame>>
    \/ \E k \in SlotKeys : ExpireSlot(k) /\ UNCHANGED <<now, cbFrame>>
    \/ AdvanceCb /\ UNCHANGED cbFrame

\* the same options.failureThreshold in every call
InitCb ==
    /\ InitBreaker /\ hookThrows = {} /\ failureThreshold = 1
    /\ InitHistory /\ InitCache /\ InitManager
    /\ cbThreshold \in 1..MaxThreshold
    /\ comp = NoComp /\ part = NoPart
    /\ shadow = NoShadow /\ limiter = NoLimiter

SpecCb == InitCb /\ [][NextCb]_vars

TypeOKCb ==
    /\ circuit.state \in {"CLOSED", "OPEN", "HALF_OPEN"}
    /\ circuit.failures \in 0..MaxFailures
    /\ circuit.held \in BOOLEAN
    /\ \A k \in SlotKeys : slots[k].value \in DataValues \cup {NULL}
    /\ streak \in 0..MaxFailures

\* C22: after failureThreshold calls in a row in which the loader failed,
\* the circuit cached for the key is OPEN.
C22_OpensAtThreshold ==
    streak >= cbThreshold => circuit.held /\ circuit.state = "OPEN"

\* C23: a call made while the cached circuit is OPEN and less than
\* recoveryTimeout after the failure that opened it takes the fallback
\* path: it returns the value of the stale slot when there is one, with no
\* loader call and no write, and otherwise calls the loader once and caches
\* its value in the stale slot with fallbackTtl; the key itself is left
\* alone.
C23_OpenServesFallback ==
    [][ (/\ Did("cb_call")
         /\ circuit.held /\ circuit.state = "OPEN"
         /\ tripTime # NULL
         /\ DateNow - tripTime < cbRecoveryTimeout)
        => /\ cev'.path = "fallback"
           /\ slots'["key"] = slots["key"]
           /\ IF slots["stale:key"].value # NULL
              THEN /\ cev'.value = slots["stale:key"].value
                   /\ cev'.loads = 0
                   /\ slots' = slots
              ELSE /\ cev'.loads = 1
                   /\ \/ cev'.threw
                      \/ slots'["stale:key"]
                             = Entry(cev'.value, now + fallbackTtl)
      ]_vars

\* C24: in cacheWithCircuitBreaker, a call in which the loader throws
\* fails: the error reaches the caller and no value is returned instead.
C24_LoaderErrorPropagates ==
    [][ Did("cb_call") /\ cev'.threw => cev'.value = Thrown ]_vars

\* ----------------------------------------------------------- CacheManager

\* Names passed to setStrategy: the three slots, a name that is no
\* property at all, and a property that this.strategies inherits from
\* Object.prototype
StrategyNames == StrategySlots \cup {"unknown", "constructor"}

ObjectPrototype == {"constructor"}

\* Values of the calls: what a store returns or holds ("none": the key is
\* not held), and "thrown" for a store operation that throws
MgrValues == {"v", "ok"}

\* this.strategies[name]: a store, the null of the redis slot, a function
\* inherited from Object.prototype, or undefined
lookup(reg, name) ==
    IF name \in StrategySlots
    THEN (IF reg[name] THEN "store" ELSE "null")
    ELSE IF name \in ObjectPrototype THEN "function" ELSE "undefined"

\* if (this.strategies[strategyName])
lookupTruthy(x) == x \in {"store", "function"}

\* what a step on CacheManager did: the call, the outcome of the store
\* operation(s), the value returned and whether the call raised
MgrEvent(kind, arg, outcome, value, raised) ==
    [kind |-> kind, arg |-> arg, outcome |-> outcome, value |-> value,
     raised |-> raised]

\* setStrategy(strategyName)
setStrategy(name) ==
    /\ IF lookupTruthy(lookup(strategies, name))
       THEN /\ currentStrategy' = name
            /\ cev' = MgrEvent("setStrategy", name, "none", "none", FALSE)
       ELSE /\ currentStrategy' = currentStrategy
            /\ cev' = MgrEvent("setStrategy", name, "none", "none", TRUE)
    /\ UNCHANGED <<strategies, backend>>

\* setRedisStrategy(redisStrategy), called with a connected store
setRedisStrategy ==
    /\ strategies' = [strategies EXCEPT !["redis"] = TRUE]
    /\ cev' = MgrEvent("setRedisStrategy", "redis", "none", "none", FALSE)
    /\ UNCHANGED <<currentStrategy, backend>>

\* The in-process stores do not throw; the redis store throws when it is
\* not connected or its client fails
CanFail(name) == name = "redis"

\* this.strategies[this.currentStrategy].op(...) throws: the store fails,
\* or the selected property is not a store and has no such method
Throws(fails) ==
    \/ lookup(strategies, currentStrategy) # "store"
    \/ fails /\ CanFail(currentStrategy)

\* the contents of the selected store
Selected == backend[currentStrategy]

storeGet(b, key) == IF b[key] = "none" THEN "null" ELSE b[key]

storeSet(b, key, v) == [b EXCEPT ![key] = v]

storeDel(b, key) == [b EXCEPT ![key] = "none"]

storeClear(b) == [k \in MgrKeys |-> "none"]

\* Variant: a wrapper that lets the error of the store through
managerCatch_rethrows(outcome, neutral) ==
    [value |-> outcome, raised |-> outcome = "thrown"]

\* try { return await store.op(...) } catch { log; return neutral }
managerCatch(outcome, neutral) ==
    [value |-> IF outcome = "thrown" THEN neutral ELSE outcome,
     raised |-> FALSE]

\* the store's part of a call: what it returns or "thrown", and what it
\* holds afterwards (a store operation that throws changes nothing)
StoreOp(kind, key, v, fails) ==
    IF Throws(fails)
    THEN [outcome |-> "thrown",
          after |-> IF currentStrategy \in StrategySlots
                    THEN Selected ELSE <<>>]
    ELSE CASE kind = "get" ->
                  [outcome |-> storeGet(Selected, key), after |-> Selected]
           [] kind = "set" ->
                  [outcome |-> "true", after |-> storeSet(Selected, key, v)]
           [] kind = "del" ->
                  [outcome |-> IF Selected[key] = "none" THEN "false"
                               ELSE "true",
                   after |-> storeDel(Selected, key)]
           [] kind = "clear" ->
                  [outcome |-> "true", after |-> storeClear(Selected)]

\* null for get, false for set, del and clear
Neutral(kind) == IF kind = "get" THEN "null" ELSE "false"

\* the store holds what the operation left
SetBackend(after) ==
    backend' = IF currentStrategy \in StrategySlots
               THEN [backend EXCEPT ![currentStrategy] = after]
               ELSE backend

\* CacheManager.get, set, del and clear
managerCall(kind, key, v, fails) ==
    /\ LET op == StoreOp(kind, key, v, fails)
           r == managerCatch(op.outcome, Neutral(kind))
       IN  /\ SetBackend(op.after)
           /\ cev' = MgrEvent(kind, key, op.outcome, r.value, r.raised)
    /\ UNCHANGED <<strategies, currentStrategy>>

\* CacheManager.healthCheck(): set, get and del of the probe key through
\* the manager's own wrappers, the three store operations failing or not
healthCheck(f1, f2, f3) ==
    /\ LET s == StoreOp("set", "probe", "ok", f1)
           b1 == s.after
           gThrows == Throws(f2)
           retrieved == IF gThrows THEN "null" ELSE storeGet(b1, "probe")
           dThrows == Throws(f3)
           b2 == IF dThrows THEN b1 ELSE storeDel(b1, "probe")
           failed == {op \in {"set", "get", "del"} :
                         \/ op = "set" /\ s.outcome = "thrown"
                         \/ op = "get" /\ gThrows
                         \/ op = "del" /\ dThrows}
       IN  /\ SetBackend(b2)
           /\ cev' = [kind |-> "healthCheck",
                      strategy |-> currentStrategy,
                      failed |-> failed,
                      healthy |-> (retrieved = "ok"),
                      raised |-> FALSE]
    /\ UNCHANGED <<strategies, currentStrategy>>

\* what the calls on CacheManager do not touch
mgrFrame ==
    <<now, breakerVars, hist, store, lockManager, callers, burst, tasks,
      nonManagerVars>>

NextMgr ==
    \/ \E name \in StrategyNames : setStrategy(name) /\ UNCHANGED mgrFrame
    \/ setRedisStrategy /\ UNCHANGED mgrFrame
    \/ \E kind \in {"get", "set", "del", "clear"} : \E key \in {"k"} :
       \E v \in {"v"} : \E fails \in BOOLEAN :
           managerCall(kind, key, v, fails) /\ UNCHANGED mgrFrame
    \/ \E f1 \in BOOLEAN : \E f2 \in BOOLEAN : \E f3 \in BOOLEAN :
           healthCheck(f1, f2, f3) /\ UNCHANGED mgrFrame

SpecMgr == InitLock /\ [][NextMgr]_vars

TypeOKMgr ==
    /\ currentStrategy \in StrategyNames
    /\ strategies \in [StrategySlots -> BOOLEAN]
    /\ backend \in [StrategySlots -> [MgrKeys -> MgrValues \cup {"none"}]]

\* the step is the given call on CacheManager
Called(kind) == cev'.kind = kind

\* C25: get, set, del and clear never raise; when the store operation
\* fails they return null (get) or false (set, del, clear), and when it
\* succeeds they return what the store returned.
C25_NeutralOnFailure ==
    [][ \A kind \in {"get", "set", "del", "clear"} :
          Called(kind) =>
            /\ ~cev'.raised
            /\ cev'.outcome = "thrown" => cev'.value = Neutral(kind)
            /\ cev'.outcome # "thrown" => cev'.value = cev'.outcome
      ]_vars

\* a get on a store that failed has returned null
C25_Witness ==
    /\ cev.kind = "get"
    /\ cev.outcome = "thrown"
    /\ cev.value = "null"
    /\ currentStrategy = "redis"

\* C26: setStrategy(name) fails and leaves currentStrategy unchanged when
\* no store is registered under name, so that currentStrategy always names
\* a registered store.
C26_CurrentIsRegistered ==
    /\ currentStrategy \in StrategySlots
    /\ strategies[currentStrategy]

\* C27: healthCheck never raises; it reports healthy = true and the
\* selected strategy when set, get and del of the probe key all succeed on
\* the store, healthy = false when one of them fails, and leaves no probe
\* key behind.
C27_HealthRoundTrip ==
    [][ Called("healthCheck") =>
          /\ ~cev'.raised
          /\ cev'.strategy = currentStrategy
          /\ cev'.healthy = (cev'.failed = {})
          /\ currentStrategy \in StrategySlots =>
                 backend'[currentStrategy]["probe"] = "none"
      ]_vars

\* ---------------------------------------------------- MemoryCacheStrategy

\* The largest delay of setTimeout, in ms (2^31 - 1)
TIMEOUT_MAX == 2147483647

\* A TTL, in seconds, beyond TIMEOUT_MAX / 1000 (about 24.8 days)
BigTtl == 2147484

\* the ttl argument of set, in seconds
MemTtls == {0, 1, 2, BigTtl}

\* setTimeout(fn, ttl * 1000): the time to the callback, in ticks of one
\* second.  Node sets a delay above TIMEOUT_MAX (or below 1) to 1 ms, which
\* is within the tick of the call.  For a whole number of seconds,
\* ttl * 1000 > TIMEOUT_MAX is ttl > TIMEOUT_MAX \div 1000.
timeoutDelay(ttl) == IF ttl > TIMEOUT_MAX \div 1000 THEN 0 ELSE ttl

\* A pending timeout: its id, the key its callback deletes, the time it is
\* due and, as history, the number of clear() calls that preceded it
Timeout(id, key, due, g) == [id |-> id, key |-> key, due |-> due, gen |-> g]

\* clearTimeout(this.timers.get(key))
clearTimeout(ts, id) == {t \in ts : t.id # id}

\* what a step on the store did
MemEvent(kind, key, v, id, g) ==
    [kind |-> kind, arg |-> key, value |-> v, id |-> id, gen |-> g]

\* the key is cached and the timeout of its timer is pending
Pending(k) ==
    /\ cache[k] # NULL
    /\ timers[k] # 0
    /\ \E t \in timeouts : t.id = timers[k] /\ t.key = k

\* MemoryCacheStrategy.get(key)
memoryGet(k) ==
    /\ cev' = MemEvent("mem_get", k, cache[k], 0, gen)
    /\ UNCHANGED memoryVars

\* MemoryCacheStrategy.set(key, value, ttl)
memorySet(k, v, ttl) ==
    /\ nextId <= MaxSets
    /\ cache' = [cache EXCEPT ![k] = v]
    /\ LET cleared == IF timers[k] # 0 THEN clearTimeout(timeouts, timers[k])
                      ELSE timeouts
       IN  IF ttl > 0
           THEN /\ timeouts' = cleared \cup
                      {Timeout(nextId, k, now + timeoutDelay(ttl), gen)}
                /\ timers' = [timers EXCEPT ![k] = nextId]
           ELSE /\ timeouts' = cleared
                /\ timers' = timers
    /\ nextId' = nextId + 1
    /\ lastSet' = [lastSet EXCEPT ![k] =
                      [id |-> IF ttl > 0 THEN nextId ELSE 0,
                       at |-> now, ttl |-> ttl, value |-> v,
                       replaced |-> Pending(k)]]
    /\ cev' = MemEvent("mem_set", k, v, nextId, gen)
    /\ UNCHANGED gen

\* MemoryCacheStrategy.del(key)
memoryDel(k) ==
    /\ IF timers[k] # 0
       THEN /\ timeouts' = clearTimeout(timeouts, timers[k])
            /\ timers' = [timers EXCEPT ![k] = 0]
       ELSE UNCHANGED <<timeouts, timers>>
    /\ cache' = [cache EXCEPT ![k] = NULL]
    /\ lastSet' = [lastSet EXCEPT ![k] = NoSet]
    /\ cev' = MemEvent("mem_del", k, cache[k], 0, gen)
    /\ UNCHANGED <<nextId, gen>>

\* Variant: clear() that wipes the maps and leaves the timeouts pending
memoryClear_keepsTimeouts ==
    /\ gen < MaxClears
    /\ timeouts' = timeouts
    /\ cache' = [k \in MemKeys |-> NULL]
    /\ timers' = [k \in MemKeys |-> 0]
    /\ gen' = gen + 1
    /\ lastSet' = [k \in MemKeys |-> NoSet]
    /\ cev' = MemEvent("mem_clear", "a", NULL, 0, gen + 1)
    /\ UNCHANGED nextId

\* MemoryCacheStrategy.clear(): every timer of the map is cleared, then
\* both maps are emptied
memoryClear ==
    /\ gen < MaxClears
    /\ timeouts' = {t \in timeouts : \A k \in MemKeys : timers[k] # t.id}
    /\ cache' = [k \in MemKeys |-> NULL]
    /\ timers' = [k \in MemKeys |-> 0]
    /\ gen' = gen + 1
    /\ lastSet' = [k \in MemKeys |-> NoSet]
    /\ cev' = MemEvent("mem_clear", "a", NULL, 0, gen + 1)
    /\ UNCHANGED nextId

\* the callback of a timeout runs: the key leaves both maps
TimerFires(t) ==
    /\ t \in timeouts
    /\ now >= t.due
    /\ cache' = [cache EXCEPT ![t.key] = NULL]
    /\ timers' = [timers EXCEPT ![t.key] = 0]
    /\ timeouts' = timeouts \ {t}
    /\ cev' = MemEvent("mem_expire", t.key, cache[t.key], t.id, t.gen)
    /\ UNCHANGED <<nextId, gen, lastSet>>

\* time passes, up to the next timeout that is due
AdvanceMem ==
    /\ now < MaxMemClock
    /\ \A t \in timeouts : t.due > now
    /\ now' = now + 1
    /\ cev' = MemEvent("mem_advance", "a", NULL, 0, gen)
    /\ UNCHANGED memoryVars

\* what the in-process store does not touch
memFrame ==
    <<breakerVars, hist, store, lockManager, callers, burst, tasks,
      nonMemoryVars>>

\* every timeout an id can belong to
Timeouts ==
    {Timeout(id, k, due, g) : id \in 1..MaxSets, k \in MemKeys,
                              due \in 0..(MaxMemClock + 2), g \in 0..MaxClears}

NextMem ==
    \/ \E k \in MemKeys : memoryGet(k) /\ UNCHANGED <<now, memFrame>>
    \/ \E k \in MemKeys : \E v \in DataValues : \E ttl \in MemTtls :
           memorySet(k, v, ttl) /\ UNCHANGED <<now, memFrame>>
    \/ \E k \in MemKeys : memoryDel(k) /\ UNCHANGED <<now, memFrame>>
    \/ memoryClear /\ UNCHANGED <<now, memFrame>>
    \/ \E t \in Timeouts : TimerFires(t) /\ UNCHANGED <<now, memFrame>>
    \/ AdvanceMem /\ UNCHANGED memFrame

SpecMem == InitLock /\ [][NextMem]_vars

TypeOKMem ==
    /\ cache \in [MemKeys -> DataValues \cup {NULL}]
    /\ timers \in [MemKeys -> 0..MaxSets]
    /\ timeouts \subseteq Timeouts
    /\ nextId \in 1..(MaxSets + 1)
    /\ gen \in 0..MaxClears

\* C28: a get of a key set with ttl = T > 0 and not set, deleted or
\* cleared since returns the value when issued less than T seconds after
\* the set, and null when issued more than T seconds after it.
C28_TtlExpiry ==
    [][ \A k \in MemKeys :
          (/\ Called("mem_get") /\ cev'.arg = k
           /\ lastSet[k].ttl > 0)
          => /\ now - lastSet[k].at < lastSet[k].ttl
                    => cev'.value = lastSet[k].value
             /\ now - lastSet[k].at > lastSet[k].ttl => cev'.value = NULL
      ]_vars

\* C29: clear() leaves the map empty and no timeout pending, and a timeout
\* that fires is the one of the latest set of its key: none installed
\* before a clear() fires after it.
C29_ClearCancelsTimers ==
    [][ /\ Called("mem_clear") =>
            /\ \A k \in MemKeys : cache'[k] = NULL
            /\ timeouts' = {}
        /\ Called("mem_expire") =>
            /\ cev'.gen = gen
            /\ cev'.id = lastSet[cev'.arg].id
      ]_vars

\* after a clear() that cancelled a pending timeout, a key set again has
\* outlived the time at which the cancelled timeout was due
C29_Witness ==
    /\ gen > 0
    /\ \E k \in MemKeys :
           /\ cache[k] # NULL
           /\ lastSet[k].id > 1
           /\ lastSet[k].ttl = 2
           /\ now > lastSet[k].at
    /\ nextId > 2

\* -------------------------------------------------------- CacheCompression

\* Characters are Unicode code points: a, e with acute accent (two bytes
\* in UTF-8) and the double quote (which JSON escapes)
Alphabet == {97, 233, 34}

\* JSON values: v holds the code points of a string, the number or the
\* truth value; items holds the elements of an array
Json(t, v, items) == [t |-> t, v |-> v, items |-> items]

Str(s) == Json("string", s, <<>>)

Num(n) == Json("number", <<n>>, <<>>)

Bool(b) == Json("boolean", <<IF b THEN 1 ELSE 0>>, <<>>)

Null == Json("null", <<>>, <<>>)

Arr(a) == Json("array", <<>>, a)

\* the outcome of a call that throws
Failure == Json("thrown", <<>>, <<>>)

RECURSIVE SeqsUpTo(_, _)
SeqsUpTo(S, n) ==
    IF n = 0 THEN {<<>>}
    ELSE LET shorter == SeqsUpTo(S, n - 1)
         IN  shorter \cup {Append(s, x) : s \in shorter, x \in S}

Scalars ==
    {Null, Bool(TRUE), Bool(FALSE)}
        \cup {Num(n) : n \in {0, 7, 10}}
        \cup {Str(s) : s \in SeqsUpTo(Alphabet, MaxStrLen)}

ArrElems == {Null, Bool(TRUE), Num(7), Str(<<97>>), Str(<<34>>)}

\* The payloads handed to compress
Payloads == Scalars \cup {Arr(a) : a \in SeqsUpTo(ArrElems, MaxArrLen)}

Algorithms == {"gzip", "deflate"}

\* options.threshold, in bytes
Thresholds == {1, 4, 6}

NullText == <<110, 117, 108, 108>>

TrueText == <<116, 114, 117, 101>>

FalseText == <<102, 97, 108, 115, 101>>

RECURSIVE Digits(_)
Digits(n) ==
    IF n < 10 THEN <<48 + n>> ELSE Digits(n \div 10) \o <<48 + (n % 10)>>

\* the quote and the backslash are written with a backslash before them
RECURSIVE Escape(_)
Escape(s) ==
    IF s = <<>> THEN <<>>
    ELSE (IF Head(s) \in {34, 92} THEN <<92, Head(s)>> ELSE <<Head(s)>>)
             \o Escape(Tail(s))

stringifyScalar(x) ==
    CASE x.t = "null" -> NullText
      [] x.t = "boolean" -> (IF x.v = <<1>> THEN TrueText ELSE FalseText)
      [] x.t = "number" -> Digits(x.v[1])
      [] x.t = "string" -> <<34>> \o Escape(x.v) \o <<34>>

RECURSIVE Join(_)
Join(parts) ==
    IF parts = <<>> THEN <<>>
    ELSE IF Len(parts) = 1 THEN parts[1]
    ELSE parts[1] \o <<44>> \o Join(Tail(parts))

\* JSON.stringify(data)
stringify(x) ==
    IF x.t = "array"
    THEN <<91>>
             \o Join([i \in 1..Len(x.items) |-> stringifyScalar(x.items[i])])
             \o <<93>>
    ELSE stringifyScalar(x)

RECURSIVE Unescape(_)
Unescape(s) ==
    IF s = <<>> THEN <<>>
    ELSE IF Head(s) = 92 /\ Len(s) >= 2
    THEN <<s[2]>> \o Unescape(SubSeq(s, 3, Len(s)))
    ELSE <<Head(s)>> \o Unescape(Tail(s))

RECURSIVE DigitsToNum(_)
DigitsToNum(c) ==
    IF Len(c) = 1 THEN c[1] - 48
    ELSE (10 * DigitsToNum(SubSeq(c, 1, Len(c) - 1))) + (c[Len(c)] - 48)

parseScalar(c) ==
    IF c = <<>> THEN Failure
    ELSE IF c[1] = 34
    THEN (IF Len(c) >= 2 /\ c[Len(c)] = 34
          THEN Str(Unescape(SubSeq(c, 2, Len(c) - 1))) ELSE Failure)
    ELSE IF c = NullText THEN Null
    ELSE IF c = TrueText THEN Bool(TRUE)
    ELSE IF c = FalseText THEN Bool(FALSE)
    ELSE IF \A i \in 1..Len(c) : c[i] \in 48..57 THEN Num(DigitsToNum(c))
    ELSE Failure

\* the elements of an array text: split at the commas outside strings
RECURSIVE Split(_, _, _, _)
Split(c, inStr, cur, acc) ==
    IF c = <<>> THEN Append(acc, cur)
    ELSE IF inStr /\ Head(c) = 92 /\ Len(c) >= 2
    THEN Split(SubSeq(c, 3, Len(c)), TRUE, cur \o <<92, c[2]>>, acc)
    ELSE IF Head(c) = 34
    THEN Split(Tail(c), ~inStr, Append(cur, 34), acc)
    ELSE IF Head(c) = 44 /\ ~inStr
    THEN Split(Tail(c), FALSE, <<>>, Append(acc, cur))
    ELSE Split(Tail(c), inStr, Append(cur, Head(c)), acc)

\* JSON.parse(text)
parse(c) ==
    IF c = <<>> THEN Failure
    ELSE IF c[1] = 91
    THEN (IF c[Len(c)] # 93 THEN Failure
          ELSE LET inner == SubSeq(c, 2, Len(c) - 1)
                   parts == Split(inner, FALSE, <<>>, <<>>)
               IN  IF inner = <<>> THEN Arr(<<>>)
                   ELSE Arr([i \in 1..Len(parts) |-> parseScalar(parts[i])]))
    ELSE parseScalar(c)

\* Buffer.from(text, "utf8"): one byte below 128, two bytes below 2048
RECURSIVE utf8(_)
utf8(s) ==
    IF s = <<>> THEN <<>>
    ELSE (IF Head(s) < 128 THEN <<Head(s)>>
          ELSE <<192 + (Head(s) \div 64), 128 + (Head(s) % 64)>>)
             \o utf8(Tail(s))

\* buffer.toString("utf8")
RECURSIVE utf8Decode(_)
utf8Decode(b) ==
    IF b = <<>> THEN <<>>
    ELSE IF Head(b) < 128 THEN <<Head(b)>> \o utf8Decode(Tail(b))
    ELSE IF Len(b) >= 2 /\ Head(b) >= 192 /\ b[2] \in 128..191
    THEN <<((b[1] - 192) * 64) + (b[2] - 128)>>
             \o utf8Decode(SubSeq(b, 3, Len(b)))
    ELSE <<65533>> \o utf8Decode(Tail(b))

\* Buffer.byteLength(text, "utf8")
byteLength(s) == Len(utf8(s))

\* base64 text as the sequence of its 6-bit digits, Pad for "="
Pad == 64

\* buffer.toString("base64")
RECURSIVE toBase64(_)
toBase64(b) ==
    IF b = <<>> THEN <<>>
    ELSE IF Len(b) >= 3
    THEN LET n == (b[1] * 65536) + (b[2] * 256) + b[3]
         IN  <<n \div 262144, (n \div 4096) % 64, (n \div 64) % 64, n % 64>>
                 \o toBase64(SubSeq(b, 4, Len(b)))
    ELSE IF Len(b) = 2
    THEN LET n == (b[1] * 65536) + (b[2] * 256)
         IN  <<n \div 262144, (n \div 4096) % 64, (n \div 64) % 64, Pad>>
    ELSE LET n == b[1] * 65536
         IN  <<n \div 262144, (n \div 4096) % 64, Pad, Pad>>

\* Buffer.from(text, "base64")
RECURSIVE fromBase64(_)
fromBase64(s) ==
    IF Len(s) < 4 THEN <<>>
    ELSE LET rest == fromBase64(SubSeq(s, 5, Len(s)))
             b1 == (s[1] * 4) + (s[2] \div 16)
         IN  IF s[3] = Pad THEN <<b1>> \o rest
             ELSE IF s[4] = Pad
             THEN <<b1, ((s[2] % 16) * 16) + (s[3] \div 4)>> \o rest
             ELSE <<b1, ((s[2] % 16) * 16) + (s[3] \div 4),
                    ((s[3] % 4) * 64) + s[4]>> \o rest

RECURSIVE Sum(_)
Sum(b) == IF b = <<>> THEN 0 ELSE Head(b) + Sum(Tail(b))

\* what gunzip and inflate throw on data that is not theirs
ZlibError == <<256>>

\* zlib's codecs are lossless and each has its own container: they are
\* represented by the container alone, a magic number before the bytes and
\* a check value after them
gzip(b) == <<31, 139>> \o b \o <<Len(b) % 256>>

gunzip(c) ==
    IF /\ Len(c) >= 3 /\ c[1] = 31 /\ c[2] = 139
       /\ c[Len(c)] = (Len(c) - 3) % 256
    THEN SubSeq(c, 3, Len(c) - 1) ELSE ZlibError

deflate(b) == <<120, 156>> \o b \o <<Sum(b) % 251>>

inflate(c) ==
    IF /\ Len(c) >= 3 /\ c[1] = 120 /\ c[2] = 156
       /\ c[Len(c)] = Sum(SubSeq(c, 3, Len(c) - 1)) % 251
    THEN SubSeq(c, 3, Len(c) - 1) ELSE ZlibError

\* What compress returns
Packed(data, compressed, algorithm, originalSize, compressedSize) ==
    [data |-> data, compressed |-> compressed, algorithm |-> algorithm,
     originalSize |-> originalSize, compressedSize |-> compressedSize]

\* Variant: compress that also leaves a payload of exactly threshold bytes
\* uncompressed
compress_inclusive(data, options) ==
    LET serialized == stringify(data)
        originalSize == byteLength(serialized)
    IN  IF originalSize <= options.threshold
        THEN Packed(serialized, FALSE, "none", originalSize, originalSize)
        ELSE LET buffer == utf8(serialized)
                 compressedBuffer == IF options.algorithm = "gzip"
                                     THEN gzip(buffer) ELSE deflate(buffer)
             IN  Packed(toBase64(compressedBuffer), TRUE, options.algorithm,
                        originalSize, Len(compressedBuffer))

\* compress(data), for options.algorithm gzip or deflate
compress(data, options) ==
    LET serialized == stringify(data)
        originalSize == byteLength(serialized)
    IN  IF originalSize < options.threshold
        THEN Packed(serialized, FALSE, "none", originalSize, originalSize)
        ELSE LET buffer == utf8(serialized)
                 compressedBuffer == IF options.algorithm = "gzip"
                                     THEN gzip(buffer) ELSE deflate(buffer)
             IN  Packed(toBase64(compressedBuffer), TRUE, options.algorithm,
                        originalSize, Len(compressedBuffer))

\* decompress(compressedData)
decompress(compressedData) ==
    IF ~compressedData.compressed THEN parse(compressedData.data)
    ELSE LET compressedBuffer == fromBase64(compressedData.data)
             decompressedBuffer ==
                 CASE compressedData.algorithm = "gzip" ->
                          gunzip(compressedBuffer)
                   [] compressedData.algorithm = "deflate" ->
                          inflate(compressedBuffer)
                   [] OTHER -> ZlibError
         IN  IF decompressedBuffer = ZlibError THEN Failure
             ELSE parse(utf8Decode(decompressedBuffer))

\* A payload on its way through compress and decompress
Comp(pc, payload, options, packed, result) ==
    [pc |-> pc, payload |-> payload, options |-> options,
     packed |-> packed, result |-> result]

NoPacked == Packed(<<>>, FALSE, "none", 0, 0)

\* compress(payload) is called and returns
Compress ==
    /\ comp.pc = "new"
    /\ comp' = [comp EXCEPT !.pc = "packed",
                            !.packed = compress(comp.payload, comp.options)]

\* decompress is called on what compress returned, and returns
Decompress ==
    /\ comp.pc = "packed"
    /\ comp' = [comp EXCEPT !.pc = "done",
                            !.result = decompress(comp.packed)]

\* what the compression does not touch
compFrame ==
    <<now, breakerVars, hist, cacheVars, nonCompVars>>

NextComp ==
    \/ Compress /\ UNCHANGED compFrame
    \/ Decompress /\ UNCHANGED compFrame

\* a CacheCompression with some algorithm and threshold, and some payload
InitComp ==
    /\ InitBreaker /\ hookThrows = {} /\ failureThreshold = 1
    /\ InitHistory /\ InitCache /\ InitManager /\ cbThreshold = 1
    /\ part = NoPart
    /\ shadow = NoShadow /\ limiter = NoLimiter
    /\ comp \in {Comp("new", p, [algorithm |-> a, threshold |-> th],
                      NoPacked, Failure) :
                     p \in Payloads, a \in Algorithms, th \in Thresholds}

SpecComp == InitComp /\ [][NextComp]_vars

virtualNodes == 2

Strategies == {"hash", "consistent-hash", "range", "round-robin"}

\* Keys, as their UTF-16 code units: "a", "b", "1", "u1", "Z"
PartKeys == {<<97>>, <<98>>, <<49>>, <<117, 49>>, <<90>>}

\* this.cacheManagers[i] of an index that holds nothing
Undefined == 0

\* history: the key was not looked up since the instances last changed
NoPartition == -1000

\* A 32-bit hash value, as its two 16-bit halves
Hash(hi, lo) == [hi |-> hi, lo |-> lo]

\* a.hash - b.hash <= 0
HashLeq(a, b) == a.hi < b.hi \/ (a.hi = b.hi /\ a.lo <= b.lo)

\* hashValue % n
HashMod(h, n) == (((h.hi % n) * (65536 % n)) + (h.lo % n)) % n

\* `${i}:${j}` for one-digit i and j
virtualNodeKey(i, j) == <<48 + i, 58, 48 + j>>

\* parseInt(md5(text).substring(0, 8), 16): the values of MD5 on the keys
\* and on the virtual node keys of up to five instances
md5Prefix(text) ==
    CASE text = <<97>> -> Hash(3265, 30137)
      [] text = <<98>> -> Hash(37611, 24574)
      [] text = <<49>> -> Hash(50378, 16952)
      [] text = <<117, 49>> -> Hash(58487, 19677)
      [] text = <<90>> -> Hash(8642, 58773)
      [] text = virtualNodeKey(0, 0) -> Hash(16044, 7996)
      [] text = virtualNodeKey(0, 1) -> Hash(33225, 38528)
      [] text = virtualNodeKey(1, 0) -> Hash(33202, 1704)
      [] text = virtualNodeKey(1, 1) -> Hash(53437, 22301)
      [] text = virtualNodeKey(2, 0) -> Hash(65218, 59192)
      [] text = virtualNodeKey(2, 1) -> Hash(27378, 54030)
      [] text = virtualNodeKey(3, 0) -> Hash(38722, 12680)
      [] text = virtualNodeKey(3, 1) -> Hash(7914, 8868)
      [] text = virtualNodeKey(4, 0) -> Hash(58317, 45657)
      [] text = virtualNodeKey(4, 1) -> Hash(62633, 46100)

\* getPartitionByHash(key)
getPartitionByHash(managers, key) == HashMod(md5Prefix(key), Len(managers))

\* the ring with one more node, behind the nodes that do not sort after it
\* (Array.prototype.sort is stable)
RECURSIVE InsertNode(_, _)
InsertNode(ring, node) ==
    IF ring = <<>> THEN <<node>>
    ELSE IF HashLeq(Head(ring).hash, node.hash)
         THEN <<Head(ring)>> \o InsertNode(Tail(ring), node)
         ELSE <<node>> \o ring

\* hashRing.sort((a, b) => a.hash - b.hash)
RECURSIVE SortRing(_)
SortRing(ring) ==
    IF ring = <<>> THEN <<>>
    ELSE InsertNode(SortRing(SubSeq(ring, 1, Len(ring) - 1)),
                    ring[Len(ring)])

\* initializeConsistentHashRing(): virtualNodes nodes for every index of
\* cacheManagers, sorted by hash
initializeConsistentHashRing(managers) ==
    SortRing([n \in 1..(Len(managers) * virtualNodes) |->
                LET i == (n - 1) \div virtualNodes
                    j == (n - 1) % virtualNodes
                IN  [hash |-> md5Prefix(virtualNodeKey(i, j)),
                     partition |-> i]])

\* getPartitionByConsistentHash(key): the first node at or after the hash
\* of the key, the first of the ring when there is none
getPartitionByConsistentHash(ring, key) ==
    LET hashValue == md5Prefix(key)
        found == {n \in 1..Len(ring) : HashLeq(hashValue, ring[n].hash)}
    IN  IF found = {} THEN ring[1].partition
        ELSE ring[CHOOSE n \in found : \A m \in found : n <= m].partition

\* key.charAt(0).toLowerCase().charCodeAt(0), of a key that is not empty
firstCharCode(key) ==
    IF key[1] \in 65..90 THEN key[1] + 32 ELSE key[1]

Min(a, b) == IF a <= b THEN a ELSE b

\* getPartitionByRange(key)
getPartitionByRange(managers, key) ==
    LET charCode == firstCharCode(key)
        rangeSize == (26 + Len(managers) - 1) \div Len(managers)
        partition == (charCode - 97) \div rangeSize
    IN  Min(partition, Len(managers) - 1)

\* the ring of a partitioner of the given strategy (none is built for the
\* other strategies)
ringOf(strategy, managers) ==
    IF strategy = "consistent-hash"
    THEN initializeConsistentHashRing(managers) ELSE <<>>

\* new CachePartitioning(cacheManagers, {strategy, virtualNodes}); seen
\* and changed are history: the partition last returned for each key since
\* the instances changed, and whether an instance was ever removed
Partitioner(strategy, managers) ==
    [strategy |-> strategy,
     cacheManagers |-> managers,
     hashRing |-> ringOf(strategy, managers),
     roundRobinIndex |-> 0,
     requests |-> 0,
     distribution |-> EmptyBag,
     nextInstance |-> Len(managers) + 1,
     seen |-> [k \in PartKeys |-> NoPartition],
     removed |-> FALSE]

\* the partition of the switch of getCacheManager
partitionOf(p, key) ==
    CASE p.strategy = "hash" -> getPartitionByHash(p.cacheManagers, key)
      [] p.strategy = "consistent-hash" ->
             getPartitionByConsistentHash(p.hashRing, key)
      [] p.strategy = "range" -> getPartitionByRange(p.cacheManagers, key)
      [] p.strategy = "round-robin" -> p.roundRobinIndex

\* this.cacheManagers[partition]
managerAt(managers, partition) ==
    IF partition \in 0..(Len(managers) - 1)
    THEN managers[partition + 1] ELSE Undefined

\* getCacheManager(key), with getPartitionByRoundRobin and the statistics
getCacheManager(key) ==
    /\ part.requests < MaxRequests
    /\ LET partition == partitionOf(part, key)
       IN  /\ part' = [part EXCEPT
                 !.roundRobinIndex =
                     IF part.strategy = "round-robin"
                     THEN (@ + 1) % Len(part.cacheManagers) ELSE @,
                 !.requests = @ + 1,
                 !.distribution = @ (+) SetToBag({partition}),
                 !.seen[key] = partition]
           /\ cev' = [kind |-> "getCacheManager",
                      key |-> key,
                      partition |-> partition,
                      manager |-> managerAt(part.cacheManagers, partition),
                      before |-> part.seen[key]]

\* addPartition(cacheManager), with a new instance
addPartition ==
    /\ part.nextInstance <= MaxInstances
    /\ LET managers == Append(part.cacheManagers, part.nextInstance)
       IN  /\ part' = [part EXCEPT
                 !.cacheManagers = managers,
                 !.hashRing = ringOf(part.strategy, managers),
                 !.nextInstance = @ + 1,
                 !.seen = [k \in PartKeys |-> NoPartition]]
           /\ cev' = [kind |-> "addPartition",
                      index |-> Len(managers) - 1]

\* cacheManagers.splice(index, 1)
splice(managers, index) ==
    SubSeq(managers, 1, index) \o SubSeq(managers, index + 2, Len(managers))

\* removePartition(partitionIndex)
removePartition(index) ==
    IF index >= 0 /\ index < Len(part.cacheManagers)
    THEN LET managers == splice(part.cacheManagers, index)
         IN  /\ part' = [part EXCEPT
                   !.cacheManagers = managers,
                   !.hashRing = ringOf(part.strategy, managers),
                   !.seen = [k \in PartKeys |-> NoPartition],
                   !.removed = TRUE]
             /\ cev' = [kind |-> "removePartition", index |-> index,
                        instance |-> part.cacheManagers[index + 1],
                        result |-> TRUE]
    ELSE /\ part' = part
         /\ cev' = [kind |-> "removePartition", index |-> index,
                    instance |-> Undefined, result |-> FALSE]

\* what the partitioner does not touch
partFrame ==
    <<now, breakerVars, hist, store, lockManager, callers, burst, tasks,
      writes, circuit, slots, cbThreshold, streak, tripTime,
      strategies, currentStrategy, backend, memoryVars, comp,
      shadow, limiter>>

\* The callers keep one instance at least
NextPart ==
    \/ \E key \in PartKeys : getCacheManager(key) /\ UNCHANGED partFrame
    \/ addPartition /\ UNCHANGED partFrame
    \/ \E index \in -1..MaxInstances :
           /\ Len(part.cacheManagers) > 1
           /\ removePartition(index)
           /\ UNCHANGED partFrame

\* A partitioner of any strategy over one instance or more
InitPart ==
    /\ InitBreaker /\ hookThrows = {} /\ failureThreshold = 1
    /\ InitHistory /\ InitCache /\ InitManager /\ cbThreshold = 1
    /\ comp = NoComp /\ shadow = NoShadow /\ limiter = NoLimiter
    /\ part \in {Partitioner(s, [i \in 1..n |-> i]) :
                     s \in Strategies, n \in 1..MaxInstances}

SpecPart == InitPart /\ [][NextPart]_vars

\* C31: getCacheManager returns a partition index in 0..N-1 and the store
\* instance at that index, for every strategy and key; with hash,
\* consistent-hash and range the same key gives the same partition while
\* the instances are unchanged.  (Round-robin after a removal is the
\* matter of C39.)
C31_PartitionInRange ==
    [][ (Called("getCacheManager")
           /\ (part.strategy = "round-robin" => ~part.removed)) =>
          /\ cev'.partition \in 0..(Len(part.cacheManagers) - 1)
          /\ cev'.manager = part.cacheManagers[cev'.partition + 1]
          /\ (part.strategy # "round-robin"
                 /\ cev'.before # NoPartition) =>
                 cev'.partition = cev'.before
      ]_vars

\* the instance that serves the key under consistent hashing
instanceOf(p, key) ==
    managerAt(p.cacheManagers, getPartitionByConsistentHash(p.hashRing, key))

\* C32: with consistent-hash, removePartition moves only the keys of the
\* removed instance: every key that another instance served is still
\* served by that instance.
C32_RemovalMovesOnlyItsKeys ==
    [][ (Called("removePartition") /\ cev'.result
           /\ part.strategy = "consistent-hash") =>
          \A key \in PartKeys :
              instanceOf(part, key) # cev'.instance =>
                  instanceOf(part', key) = instanceOf(part, key)
      ]_vars

\* C39: with round-robin, successive getCacheManager calls go through the
\* partitions cyclically, and after any addPartition and removePartition
\* calls the partition returned is the index of an existing instance.
C39_RoundRobinInRange ==
    [][ (Called("getCacheManager") /\ part.strategy = "round-robin") =>
          /\ cev'.partition \in 0..(Len(part.cacheManagers) - 1)
          /\ cev'.manager # Undefined
          /\ part'.roundRobinIndex =
                 (cev'.partition + 1) % Len(part.cacheManagers)
      ]_vars

\* ------------------------------------------- the breaker: state changes

\* C33: the state becomes HALF_OPEN only in an execute call that finds it
\* OPEN with the time at or past nextAttemptTime, and never by the passage
\* of time; it becomes CLOSED only from HALF_OPEN on a successful
\* operation, or by reset() or forceClose().
C33_StateChanges ==
    [][ /\ (state' = "HALF_OPEN" /\ state # "HALF_OPEN") =>
               /\ ev'.kind \in {"start", "trialAbort"}
               /\ state = "OPEN"
               /\ nextAttemptTime # NULL
               /\ now >= nextAttemptTime
        /\ (state' = "CLOSED" /\ state # "CLOSED") =>
               \/ state = "HALF_OPEN" /\ ev'.kind = "success"
               \/ ev'.kind \in {"reset", "forceClose"}
        /\ ev'.kind = "tick" => state' = state
      ]_vars

\* an execute call has moved the breaker to HALF_OPEN, the recovery time
\* having passed
C33_Witness ==
    /\ state = "HALF_OPEN"
    /\ ev.kind = "start"
    /\ Fired(ev.hooks, "HALF_OPEN")
    /\ now > 0
    /\ now >= nextAttemptTime

\* ------------------------------- the breaker behind withFallback

\* res.json of a route behind withFallback: breaker.onCallSuccess(), called
\* directly, then the response
MwSuccess ==
    /\ calls < MaxCalls
    /\ calls' = calls + 1
    /\ LET r == onCallSuccess(This)
       IN  /\ SetThis(r.b)
           /\ ev' = Event("mwSuccess", "none",
                          IF r.threw THEN "hook_error" ELSE "result",
                          r.hooks)
           /\ openedAt' = OpenedAtAfter(r.b, r.hooks, now)
           /\ blocked' = BlockedAfter(r.b, r.hooks)
    /\ UNCHANGED <<config, now, inflight>>

\* next(error) of a route behind withFallback: breaker.onCallFailure(error),
\* called directly, then the 503 answer when the breaker is OPEN and the
\* error handler otherwise
MwFailure ==
    /\ calls < MaxCalls
    /\ calls' = calls + 1
    /\ LET r == onCallFailure(This, now)
       IN  /\ SetThis(r.b)
           /\ ev' = Event("mwFailure", "none",
                          IF r.threw THEN "hook_error"
                          ELSE IF r.b.state = "OPEN" THEN "unavailable"
                          ELSE "op_error",
                          r.hooks)
           /\ openedAt' = OpenedAtAfter(r.b, r.hooks, now)
           /\ blocked' = BlockedAfter(r.b, r.hooks)
    /\ UNCHANGED <<config, now, inflight>>

\* One breaker used through execute, the overrides and withFallback
NextMw ==
    \/ Tick /\ UNCHANGED <<hist, cacheVars, managerVars>>
    \/ \E f \in FallbackKinds :
           ExecuteStart(f) /\ UNCHANGED <<hist, cacheVars, managerVars>>
    \/ \E call \in Calls :
           OpSucceed(call) /\ UNCHANGED <<hist, cacheVars, managerVars>>
    \/ \E call \in Calls :
           OpFail(call) /\ UNCHANGED <<hist, cacheVars, managerVars>>
    \/ reset /\ UNCHANGED <<hist, cacheVars, managerVars>>
    \/ forceOpen /\ UNCHANGED <<hist, cacheVars, managerVars>>
    \/ forceClose /\ UNCHANGED <<hist, cacheVars, managerVars>>
    \/ MwSuccess /\ UNCHANGED <<hist, cacheVars, managerVars>>
    \/ MwFailure /\ UNCHANGED <<hist, cacheVars, managerVars>>

SpecMw == Init /\ [][NextMw]_vars

\* C37: in every reachable state of a breaker used through execute, the
\* overrides and the direct onCallSuccess / onCallFailure calls of the
\* middleware, successCount <= requestCount, so that the failureRate of
\* getMetrics is between 0 and 1.
C37_SuccessWithinRequests ==
    /\ successCount <= requestCount
    /\ LET m == getMetrics(This)
       IN  /\ m.failureRate.num >= 0
           /\ m.failureRate.num <= m.failureRate.den

\* ------------------------------------- the breaker: reset() as a restart

\* the partitioner, the rate limiter and the rest apart from the history of
\* reset()
nonResetVars ==
    <<writes, circuit, slots, cbThreshold, streak, tripTime,
      strategies, currentStrategy, backend, memoryVars, comp, partVars,
      limiter>>

\* History, kept from the first reset() on: the fields b of a breaker that
\* was constructed at the time of the latest reset() and has received the
\* calls made since then, and the execute calls started since then that
\* are still in flight
Shadow(b, fresh) == [pc |-> "on", b |-> b, fresh |-> fresh]

\* execute up to await operation(), on fields b at time t
executeGate(b, t) ==
    IF b.state = "OPEN" /\ ~canAttemptReset(b, t)
    THEN b
    ELSE [b EXCEPT !.state = IF @ = "OPEN" THEN "HALF_OPEN" ELSE @,
                   !.requestCount = @ + 1]

\* forceOpen() and forceClose() on fields b at time t
forceOpenOn(b, t) ==
    [b EXCEPT !.state = "OPEN", !.nextAttemptTime = t + recoveryTimeout]

forceCloseOn(b) ==
    [b EXCEPT !.state = "CLOSED", !.failureCount = 0,
              !.nextAttemptTime = NULL]

\* the call that settles was started since the latest reset() (fresh) or
\* before it
MaySettle(call, fresh) ==
    IF fresh
    THEN IF shadow.pc = "none" THEN FALSE
         ELSE BagIn(call, shadow.fresh)
    ELSE IF shadow.pc = "none" THEN TRUE
         ELSE CopiesIn(call, inflight) > CopiesIn(call, shadow.fresh)

ResetExecuteStart(f) ==
    /\ ExecuteStart(f)
    /\ shadow' = IF shadow.pc = "none" THEN shadow
                 ELSE Shadow(executeGate(shadow.b, now),
                             shadow.fresh (+) (inflight' (-) inflight))

ResetOpSucceed(call, fresh) ==
    /\ MaySettle(call, fresh)
    /\ OpSucceed(call)
    /\ shadow' = IF fresh
                 THEN Shadow(onCallSuccess(shadow.b).b,
                             shadow.fresh (-) SetToBag({call}))
                 ELSE shadow

ResetOpFail(call, fresh) ==
    /\ MaySettle(call, fresh)
    /\ OpFail(call)
    /\ shadow' = IF fresh
                 THEN Shadow(CatchBlock(shadow.b, now, call.fallback,
                                        "op_error").b,
                             shadow.fresh (-) SetToBag({call}))
                 ELSE shadow

ResetForceOpen ==
    /\ forceOpen
    /\ shadow' = IF shadow.pc = "none" THEN shadow
                 ELSE Shadow(forceOpenOn(shadow.b, now), shadow.fresh)

ResetForceClose ==
    /\ forceClose
    /\ shadow' = IF shadow.pc = "none" THEN shadow
                 ELSE Shadow(forceCloseOn(shadow.b), shadow.fresh)

\* reset(): from here on the history follows a new breaker
ResetReset ==
    /\ reset
    /\ shadow' = Shadow(NewBreaker, EmptyBag)

NextReset ==
    \/ Tick /\ UNCHANGED <<hist, cacheVars, nonResetVars, shadow>>
    \/ \E f \in FallbackKinds :
           ResetExecuteStart(f) /\ UNCHANGED <<hist, cacheVars, nonResetVars>>
    \/ \E call \in Calls : \E fresh \in BOOLEAN :
           ResetOpSucceed(call, fresh)
               /\ UNCHANGED <<hist, cacheVars, nonResetVars>>
    \/ \E call \in Calls : \E fresh \in BOOLEAN :
           ResetOpFail(call, fresh)
               /\ UNCHANGED <<hist, cacheVars, nonResetVars>>
    \/ ResetReset /\ UNCHANGED <<hist, cacheVars, nonResetVars>>
    \/ ResetForceOpen /\ UNCHANGED <<hist, cacheVars, nonResetVars>>
    \/ ResetForceClose /\ UNCHANGED <<hist, cacheVars, nonResetVars>>

SpecReset == Init /\ [][NextReset]_vars

\* C34: reset() leaves the fields of a newly constructed breaker, and from
\* then on the fields, hence the behaviour and the metrics, are those of a
\* new breaker that received the calls made since the reset, also when
\* execute calls were in flight at the time of the reset.
C34_ResetIsRestart ==
    shadow.pc = "on" => This = shadow.b

\* --------------------------------- MemoryCacheStrategy: set over a set

\* C35: set(k, v2, T2) on a key that holds a value with a pending timer
\* replaces value and expiry: the entry holds v2 and the earlier timer is
\* cancelled, so the entry is removed only by the timer of the second set,
\* T2 seconds after it, and never when T2 <= 0.
C35_SetReplacesTimer ==
    [][ \A k \in MemKeys :
          /\ (Called("mem_set") /\ cev'.arg = k /\ Pending(k)) =>
                 /\ cache'[k] = cev'.value
                 /\ \A t \in timeouts' : t.id # timers[k]
          /\ (Called("mem_expire") /\ cev'.arg = k
                 /\ lastSet[k].replaced) =>
                 /\ lastSet[k].ttl > 0
                 /\ cev'.id = lastSet[k].id
                 /\ now = lastSet[k].at + lastSet[k].ttl
      ]_vars

\* getStats().activeTimers
activeTimers == Cardinality({k \in MemKeys : timers[k] # 0})

\* C36: in every reachable state the timers map has an entry for a key
\* exactly when the key is cached with an expiry pending, so that
\* activeTimers is the number of cached keys that will expire.
C36_TimersMatchPending ==
    /\ \A k \in MemKeys : timers[k] # 0 <=> Pending(k)
    /\ activeTimers = Cardinality({k \in MemKeys : Pending(k)})

\* ------------------------------------ writeBehind: the order of persists

\* the write-behind whose persist the step invokes
Persisting(w) ==
    /\ w \in BagToSet(writes)
    /\ w.pc = "timer"
    /\ writes' = (writes (-) SetToBag({w}))
                     (+) SetToBag({[w EXCEPT !.pc = "persist"]})

\* C38: the persist calls of the writeBehind calls for a key run in the
\* order of the cache writes, whatever the writeDelay of each, so that
\* when every scheduled persist has been invoked the value persisted last
\* is the value the cache holds.
C38_PersistInWriteOrder ==
    [][ Did("wb_persist_called") =>
          \A w \in Writes :
              Persisting(w) =>
                  /\ \A u \in BagToSet(writes) :
                         u.pc = "timer" => u.seq >= w.seq
                  /\ ((\A u \in BagToSet(writes') : u.pc # "timer")
                         /\ store'["key"].value # NULL) =>
                         w.data = store'["key"].value
      ]_vars

\* ------------------------------------------ RateLimiter over MemoryStore

\* options.windowMs, in ticks of the clock
windowMs == 2

\* the requests of one key
Requests == 1..MaxRequests

\* store.get(key) of a key the Map does not hold
NoRecord == 0

\* A request: where its middleware call stands, the record its
\* store.get(key) returned, and the Date.now() it read
Request(pc, record, at) == [pc |-> pc, record |-> record, at |-> at]

\* new RateLimiter({windowMs, maxRequests}) with its own MemoryStore.
\* heap holds the record objects { count, resetTime } by identity, store
\* is the object the Map holds for the key; passed holds, as history, the
\* times at which the requests passed on to next() were handled
Limiter(maxRequests) ==
    [maxRequests |-> maxRequests,
     heap |-> <<>>,
     store |-> NoRecord,
     reqs |-> [r \in Requests |-> Request("idle", NoRecord, NULL)],
     passed |-> <<>>]

\* if (!record || now - record.resetTime > this.windowMs)
newWindow(heap, record, t) ==
    IF record = NoRecord THEN TRUE
    ELSE t - heap[record].resetTime > windowMs

\* The middleware is called: const record = await this.store.get(key);
\* MemoryStore.get reads the Map and the call awaits the result
rlGet(r) ==
    /\ limiter.reqs[r].pc = "idle"
    /\ limiter' = [limiter EXCEPT
           !.reqs[r] = Request("got", limiter.store, NULL)]
    /\ cev' = [kind |-> "rl_get", req |-> r, at |-> now]

\* The await of store.get resumes: the window test, then a new record, the
\* 429 answer, or record.count++; MemoryStore.set writes the Map when it is
\* called and the call awaits it
rlDecide(r) ==
    /\ limiter.reqs[r].pc = "got"
    /\ LET record == limiter.reqs[r].record
           heap == limiter.heap
       IN  IF newWindow(heap, record, now)
           THEN /\ limiter' = [limiter EXCEPT
                      !.heap = Append(heap, [count |-> 1, resetTime |-> now]),
                      !.store = Len(heap) + 1,
                      !.reqs[r] = Request("set", record, now)]
                /\ cev' = [kind |-> "rl_new_window", req |-> r, at |-> now]
           ELSE IF heap[record].count >= limiter.maxRequests
           THEN /\ limiter' = [limiter EXCEPT
                      !.reqs[r] = Request("done", record, now)]
                /\ cev' = [kind |-> "rl_429", req |-> r, at |-> now]
           ELSE /\ limiter' = [limiter EXCEPT
                      !.heap[record].count = @ + 1,
                      !.store = record,
                      !.reqs[r] = Request("set", record, now)]
                /\ cev' = [kind |-> "rl_counted", req |-> r, at |-> now]

\* The await of store.set resumes: next()
rlNext(r) ==
    /\ limiter.reqs[r].pc = "set"
    /\ limiter' = [limiter EXCEPT
           !.reqs[r].pc = "done",
           !.passed = Append(@, limiter.reqs[r].at)]
    /\ cev' = [kind |-> "rl_next", req |-> r, at |-> limiter.reqs[r].at]

\* Date.now() advances
AdvanceLimiter ==
    /\ now < MaxLimiterClock
    /\ now' = now + 1
    /\ cev' = [kind |-> "rl_advance", req |-> 0, at |-> now + 1]
    /\ UNCHANGED limiter

\* what the rate limiter does not touch
limiterFrame ==
    <<breakerVars, hist, store, lockManager, callers, burst, tasks,
      writes, circuit, slots, cbThreshold, streak, tripTime,
      strategies, currentStrategy, backend, memoryVars, comp, partVars,
      shadow>>

NextLimiter ==
    \/ \E r \in Requests : rlGet(r) /\ UNCHANGED <<now, limiterFrame>>
    \/ \E r \in Requests : rlDecide(r) /\ UNCHANGED <<now, limiterFrame>>
    \/ \E r \in Requests : rlNext(r) /\ UNCHANGED <<now, limiterFrame>>
    \/ AdvanceLimiter /\ UNCHANGED limiterFrame

InitLimiter ==
    /\ InitBreaker /\ hookThrows = {} /\ failureThreshold = 1
    /\ InitHistory /\ InitCache /\ InitManager /\ cbThreshold = 1
    /\ comp = NoComp /\ part = NoPart /\ shadow = NoShadow
    /\ limiter \in {Limiter(m) : m \in 1..MaxLimit}

SpecLimiter == InitLimiter /\ [][NextLimiter]_vars

\* the requests passed on to next() that were handled in the window that
\* starts at t
PassedIn(t) ==
    {i \in 1..Len(limiter.passed) :
         limiter.passed[i] >= t /\ limiter.passed[i] <= t + windowMs}

\* C40: for one key, whatever the interleaving of the requests, at most
\* maxRequests requests are passed on to next() in one window (the
\* windowMs that follow the resetTime of a record); the others are
\* answered with 429.
C40_AtMostMaxPerWindow ==
    \A o \in 1..Len(limiter.heap) :
        Cardinality(PassedIn(limiter.heap[o].resetTime))
            <= limiter.maxRequests

====
